---- MODULE Spec2Model ----
(***************************************************************************)
(* A model of the browser-driven workflow engine of facility_booker:       *)
(* checkAvailability (scan path) and bookSlot (booking pipeline), the      *)
(* login flow both share, and the /check_now and /book handlers that call  *)
(* them.  Strings that the code inspects character by character (time      *)
(* labels, marker titles) are sequences of one-character strings.          *)
(***************************************************************************)
EXTENDS Integers, Sequences, FiniteSets, TLC

\* the candidate locators of the CWL Login affordance
CwlCandidates == 4

\* ------------------------------------------------------------------ bounds
MaxMarkers == 2   \* "Book Now" markers on one schedule view
MaxRows == 2      \* attendee rows on the attendee page
MaxCourts == 2    \* "Choose" affordances on the resource list
MaxScanMarkers == 1 \* markers (or table rows) read on one scanned resource
MaxCalls == 2     \* calls of the two operations in progress at once

\* ------------------------------------------------------- character strings
Digits == <<"0", "1", "2", "3", "4", "5", "6", "7", "8", "9">>

IsDigit(c) == \E i \in 1..10 : Digits[i] = c

DigitVal(c) == (CHOOSE i \in 1..10 : Digits[i] = c) - 1

\* Number("09") = 9, parseInt("09", 10) = 9 on a string of digits
RECURSIVE ParseNum(_)
ParseNum(s) ==
    IF s = <<>> THEN 0
    ELSE 10 * ParseNum(SubSeq(s, 1, Len(s) - 1)) + DigitVal(s[Len(s)])

\* n.toString() for 0 <= n < 100
NumStr(n) == IF n < 10 THEN <<Digits[n + 1]>>
             ELSE <<Digits[(n \div 10) + 1], Digits[(n % 10) + 1]>>

\* n.toString().padStart(2, "0") for 0 <= n < 100
Pad2(n) == IF n < 10 THEN <<"0">> \o NumStr(n) ELSE NumStr(n)

LowerChar(c) == CASE c = "A" -> "a" [] c = "P" -> "p" [] c = "M" -> "m"
                  [] OTHER -> c

UpperChar(c) == CASE c = "a" -> "A" [] c = "p" -> "P" [] c = "m" -> "M"
                  [] OTHER -> c

ToLower(s) == [i \in DOMAIN s |-> LowerChar(s[i])]

ToUpper(s) == [i \in DOMAIN s |-> UpperChar(s[i])]

\* hay.includes(needle)
Includes(hay, needle) ==
    \E i \in 0..(Len(hay) - Len(needle)) :
        SubSeq(hay, i + 1, i + Len(needle)) = needle

RECURSIVE TrimLeft(_)
TrimLeft(s) == IF s # <<>> /\ s[1] = " " THEN TrimLeft(Tail(s)) ELSE s

RECURSIVE TrimRight(_)
TrimRight(s) == IF s # <<>> /\ s[Len(s)] = " "
                THEN TrimRight(SubSeq(s, 1, Len(s) - 1)) ELSE s

Trim(s) == TrimLeft(TrimRight(s))

\* index of the first ":" of s, 0 when there is none
ColonAt(s) == IF \E i \in DOMAIN s : s[i] = ":"
              THEN CHOOSE i \in DOMAIN s :
                      s[i] = ":" /\ \A j \in 1..(i - 1) : s[j] # ":"
              ELSE 0

\* the two parts of a "HH:MM" string, as split(":").map(Number) yields them
HourOf(t) == ParseNum(SubSeq(t, 1, ColonAt(t) - 1))
MinuteOf(t) == ParseNum(SubSeq(t, ColonAt(t) + 1, Len(t)))

\* ------------------------------------------------------- time conversion
\* the value no match / null is written NoTime
NoTime == <<>>

\* the groups of /^(\d{1,2}):(\d{2})\s*(AM|PM)$/i on a trimmed string
To24hMatches(t) ==
    LET c == ColonAt(t) IN
      /\ c \in {2, 3}
      /\ \A i \in 1..(c - 1) : IsDigit(t[i])
      /\ Len(t) >= c + 4
      /\ IsDigit(t[c + 1]) /\ IsDigit(t[c + 2])
      /\ ToUpper(SubSeq(t, Len(t) - 1, Len(t))) \in {<<"A", "M">>, <<"P", "M">>}
      /\ \A i \in (c + 3)..(Len(t) - 2) : t[i] = " "

\* to24h without the special cases of 12 AM and 12 PM
to24hAlwaysAdds12(time12) ==
    LET t == Trim(time12) IN
    IF ~To24hMatches(t) THEN NoTime
    ELSE LET c == ColonAt(t)
             hh == ParseNum(SubSeq(t, 1, c - 1))
             isPM == ToUpper(SubSeq(t, Len(t) - 1, Len(t))) = <<"P", "M">>
             h == IF isPM THEN hh + 12 ELSE hh
         IN Pad2(h) \o <<":">> \o SubSeq(t, c + 1, c + 2)

to24h(time12) ==
    LET t == Trim(time12) IN
    IF ~To24hMatches(t) THEN NoTime
    ELSE LET c == ColonAt(t)
             hh == ParseNum(SubSeq(t, 1, c - 1))
             isPM == ToUpper(SubSeq(t, Len(t) - 1, Len(t))) = <<"P", "M">>
             h == IF hh = 12 /\ ~isPM THEN 0
                  ELSE IF hh # 12 /\ isPM THEN hh + 12
                  ELSE hh
         IN Pad2(h) \o <<":">> \o SubSeq(t, c + 1, c + 2)

durationMinutes(start24, end24) ==
    (HourOf(end24) * 60 + MinuteOf(end24))
        - (HourOf(start24) * 60 + MinuteOf(start24))

\* bookSlot step 1: the 12-hour label searched for in the marker titles
time12hOf(time_24h) ==
    LET hour == HourOf(time_24h)
        minute == MinuteOf(time_24h)
        hour12 == IF hour = 0 THEN 12 ELSE IF hour > 12 THEN hour - 12 ELSE hour
        ampm == IF hour >= 12 THEN <<"P", "M">> ELSE <<"A", "M">>
    IN NumStr(hour12) \o <<":">> \o Pad2(minute) \o <<" ">> \o ampm

\* ------------------------------------------------------------ input data
AM == <<"A", "M">>
PM == <<"P", "M">>

\* a 12-hour label as the portal prints it, "3:00 PM" or zero-padded "03:00 PM"
Label12(h, m, ap) == NumStr(h) \o <<":">> \o Pad2(m) \o <<" ">> \o ap
Label12Padded(h, m, ap) == Pad2(h) \o <<":">> \o Pad2(m) \o <<" ">> \o ap

\* a marker's title attribute, "03:00 PM-04:00 PM"
TitleOf(startLabel, endLabel) == startLabel \o <<"-">> \o endLabel

Today == <<"2", "0", "2", "6", "-", "1", "1", "-", "0", "6">>
Tomorrow == <<"2", "0", "2", "6", "-", "1", "1", "-", "0", "7">>

\* a "Book Now" span of a schedule view: what the code reads of it
Marker(title, visible, textOk, available, date) ==
    [title |-> title, visible |-> visible, textOk |-> textOk,
     available |-> available, date |-> date]

MarkerKinds ==
    { Marker(TitleOf(Label12(9, 0, AM), Label12(10, 0, AM)), TRUE, TRUE, TRUE, Today),
      Marker(TitleOf(Label12Padded(2, 0, PM), Label12Padded(3, 0, PM)), TRUE, TRUE, TRUE, Tomorrow),
      Marker(TitleOf(Label12(12, 0, AM), Label12(1, 0, AM)), TRUE, TRUE, TRUE, <<>>),
      Marker(<<>>, TRUE, TRUE, TRUE, <<>>) }

\* all sequences over S of length at most n
SeqsUpTo(S, n) == UNION { [1..k -> S] : k \in 0..n }

MarkerLists == SeqsUpTo(MarkerKinds, MaxMarkers)

\* an attendee row of the attendee page: what the code reads of it
Row(you, labelEmpty, disabled, hidden, hasBox, checked) ==
    [you |-> you, labelEmpty |-> labelEmpty, disabled |-> disabled,
     hidden |-> hidden, hasBox |-> hasBox, checked |-> checked]

RowKinds ==
    { Row(TRUE, FALSE, FALSE, FALSE, TRUE, FALSE),    \* "(You)", selectable
      Row(TRUE, FALSE, FALSE, FALSE, TRUE, TRUE),     \* "(You)", already checked
      Row(TRUE, FALSE, TRUE, FALSE, FALSE, FALSE),    \* "(You)", disabled
      Row(TRUE, FALSE, FALSE, FALSE, FALSE, FALSE),   \* "(You)", no checkbox
      Row(FALSE, FALSE, FALSE, FALSE, TRUE, FALSE),   \* other, selectable
      Row(FALSE, FALSE, TRUE, FALSE, FALSE, FALSE),   \* other, disabled
      Row(FALSE, FALSE, FALSE, TRUE, TRUE, FALSE),    \* other, hidden
      Row(FALSE, TRUE, FALSE, FALSE, TRUE, FALSE) }   \* other, empty label

RowLists == SeqsUpTo(RowKinds, MaxRows)

\* the request bodies POSTed to /book
Body(urlKind, time, dur, n) ==
    [facility_url |-> urlKind, time_24h |-> time, duration_hours |-> dur,
     num_people |-> n]

BookBodies ==
    { Body("facility", <<"0", "9", ":", "0", "0">>, 1, 2),
      Body("facility", <<"1", "4", ":", "0", "0">>, 2, 4),
      Body("other", <<"0", "2", ":", "0", "0">>, 1, 1),
      Body("facility", <<"9", ":", "0", "0">>, 1, 2),
      Body("facility", <<"0", "9", ":", "0", "0">>, 3, 2),
      Body("facility", <<"0", "9", ":", "0", "0">>, 1, 5),
      Body("notAUrl", <<"0", "9", ":", "0", "0">>, 1, 2),
      Body("facility", <<"2", "5", ":", "6", "1">>, 1, 2) }

\* the preferences POSTed to /check_now; an optional field is a set with at
\* most one element
Prefs(start, end, min) ==
    [start_hour |-> start, end_hour |-> end, min_minutes |-> min]

PrefsBodies ==
    { Prefs({}, {}, {}), Prefs({18}, {22}, {}), Prefs({}, {}, {90}),
      Prefs({}, {}, {10}) }

\* what an Error's message can be
ErrorMessages == {"Timeout 60000ms exceeded", ""}

\* the kinds of page URL the code tells apart
UrlKinds == {"blank", "list", "facility", "portal", "portalRet", "attendee",
             "payment", "other"}

\* url.startsWith(BASE_URL.split("?")[0])
OnLanding(u) == u = "list"

\* url.includes("BookMe4LandingPages/Facility")
OnFacility(u) == u = "facility"

\* url.includes("portal.recreation.ubc.ca") || url.includes("Login")
AtLoginBoundary(u) == u \in {"portal", "portalRet"}

\* new URL(url).searchParams.get("returnUrl") is not null
HasReturnUrl(u) == u = "portalRet"

\* url.includes("BookMe4EventParticipants")
OnAttendeePage(u) == u = "attendee"

\* the routes of the server
PublicRoutes == {"/", "/health"}
ProtectedRoutes == {"/check_now", "/notify", "/book"}

\* what notify() reads: the chat id and email of the request, whether
\* env.telegram and env.smtp are set, TELEGRAM_CHAT_ID and EMAIL_TO; an
\* absent string is <<>>
NotifyIn(userChat, defaultChat, telegram, smtp, userEmail, defaultEmail) ==
    [userChat |-> userChat, defaultChat |-> defaultChat, telegram |-> telegram,
     smtp |-> smtp, userEmail |-> userEmail, defaultEmail |-> defaultEmail]

NotifyInputs ==
    { NotifyIn(uc, dc, tg, sm, ue, de) :
        uc \in {<<>>, <<" ">>, <<"4", "2">>}, dc \in {<<>>, <<"7">>},
        tg \in BOOLEAN, sm \in BOOLEAN,
        ue \in {<<>>, <<"u", "@", "x">>}, de \in {<<>>, <<"d", "@", "x">>} }

\* the calls of checkAvailability and bookSlot that may be in progress at once
Calls == 1..MaxCalls

\* ------------------------------------------------------------------ state
VARIABLES
    op,          \* the public operation in progress: "none", "check", "book"
    variant,     \* which checkAvailability runs: "sorted" (the one next to
                 \* bookSlot) or "guarded" (src/ubc.ts)
    req,         \* the BookingRequest of a bookSlot call
    prefs,       \* the Preferences of a checkAvailability call
    credsOk,     \* UBC_USER and UBC_PASS were both non-empty when read
    pc,          \* position of the operation
    browser,     \* "none", "open", "closed"
    thrown,      \* <<>> or <<message>>: an error propagating out of the call
    failedAt,    \* position at which an error was raised, "" when none was
    retval,      \* <<>> or <<value>>: the value a return statement has set
    outcome,     \* "none", "returned", "rejected"
    resp,        \* HTTP status the handler has answered with, 0 before
    url,         \* kind of URL the active page is on
    loginCount,  \* times the login flow was entered (the Login click)
    cwlClicked,  \* index of the CWL candidate clicked, 0 none
    cwlVis,      \* which of the four CWL candidates the probe found visible
    credFilled,  \* credentials were typed and the login form submitted
    acts,        \* the clicks of the booking pipeline, in order
    markers,     \* "Book Now" spans of the facility page being read
    targetIdx,   \* index of the span chosen in step 1, 0 none
    step1,       \* targetSpan after the loop of step 1: "pending" before
                 \* the loop has run, then "null" or "found"
    attendeeCount, \* value set in the attendee-count control, 0 unset
    rows,        \* attendee rows of the attendee page
    selName,     \* selectedAttendeeName is non-empty
    selIdx,      \* index of the row the attendee step selected, 0 none
    attendeeSelected, \* some attendee is actually selected
    pageConf,    \* the page after the order shows confirmation-language text
    pageErr,     \* text of the error element on that page, "" when none
    courtCount,  \* number of "Choose" affordances found
    courtIdx,    \* resource being scanned (1-based), 0 before the loop
    allSlots,    \* slots collected by the scan so far
    opened,      \* resources whose schedule view the scan went to open, in order
    labelSeen,   \* headings of the resource being scanned: the one near its
                 \* Choose control, the one on its own page; "" when absent
    callOp,      \* concurrent calls: the operation each call runs
    callPc,      \* concurrent calls: the position of each call
    callBrowser, \* concurrent calls: the local `browser` of each call, 0 unset
    browsers,    \* every browser launched so far: who launched it, its state
    touched,     \* <<call, browser>>: the call acted on or closed the browser
    xMarkers,    \* extraction alone: the markers of one schedule view
    xPrefs,      \* extraction alone: the preferences of the request
    xWide,       \* extraction alone: a second set of preferences
    xSlots,      \* extraction alone: the slots extracted under xPrefs
    xWideSlots,  \* extraction alone: the slots extracted under xWide
    xPc,         \* extraction alone: "idle", "ready", "extracted"
    tIn,         \* conversion alone: hour, minute, AM/PM of a 12-hour label
    t24,         \* conversion alone: what to24h made of the label
    t12,         \* conversion alone: the 12-hour label bookSlot makes of t24
    tPc,         \* conversion alone: "idle", "ready", "converted"
    endpoint,    \* the route of the request, "none" before one arrives
    tokenOk,     \* the request carries the token of BOOKER_GPT_TOKEN
    nIn,         \* /notify: the targets of the request and of the environment
    sends        \* /notify: the deliveries attempted, channel and recipient

inVars == <<op, variant, req, prefs, credsOk>>
loginVars == <<loginCount, cwlClicked, cwlVis, credFilled>>
bookVars == <<markers, targetIdx, step1, attendeeCount, rows, selName, selIdx,
              attendeeSelected, pageConf, pageErr>>
scanVars == <<courtCount, courtIdx, allSlots, opened, labelSeen>>
opVars == <<op, variant, req, prefs, credsOk, pc, browser, thrown, failedAt,
          retval, outcome, resp, url, loginCount, cwlClicked, cwlVis, credFilled,
          acts,
          markers, targetIdx, step1, attendeeCount, rows, selName, selIdx,
          attendeeSelected, pageConf, pageErr, courtCount, courtIdx, allSlots,
          opened, labelSeen>>
callVars == <<callOp, callPc, callBrowser, browsers, touched>>
timeVars == <<tIn, t24, t12, tPc>>
pureVars == <<xMarkers, xPrefs, xWide, xSlots, xWideSlots, xPc, timeVars>>
httpVars == <<endpoint, tokenOk, nIn, sends>>
vars == <<opVars, callVars, pureVars, httpVars>>

InitOps ==
    /\ op = "none" /\ variant = "sorted"
    /\ endpoint = "none" /\ tokenOk = FALSE
    /\ nIn = NotifyIn(<<>>, <<>>, FALSE, FALSE, <<>>, <<>>) /\ sends = <<>>
    /\ req = Body("facility", <<"0", "9", ":", "0", "0">>, 1, 2)
    /\ prefs = Prefs({}, {}, {})
    /\ credsOk = TRUE
    /\ pc = "idle" /\ browser = "none"
    /\ thrown = <<>> /\ failedAt = "" /\ retval = <<>>
    /\ outcome = "none" /\ resp = 0
    /\ url = "blank"
    /\ loginCount = 0 /\ cwlClicked = 0 /\ credFilled = FALSE
    /\ cwlVis = [i \in 1..CwlCandidates |-> FALSE]
    /\ acts = <<>>
    /\ markers = <<>> /\ targetIdx = 0 /\ step1 = "pending"
    /\ attendeeCount = 0
    /\ rows = <<>> /\ selName = FALSE /\ selIdx = 0
    /\ attendeeSelected = FALSE
    /\ pageConf = FALSE /\ pageErr = ""
    /\ courtCount = 0 /\ courtIdx = 0 /\ allSlots = <<>> /\ opened = <<>>
    /\ labelSeen = [list |-> "", page |-> ""]
    /\ callOp = [c \in Calls |-> "none"]
    /\ callPc = [c \in Calls |-> "idle"]
    /\ callBrowser = [c \in Calls |-> 0]
    /\ browsers = <<>> /\ touched = {}

\* nothing is being extracted
IdleExtract ==
    /\ xMarkers = <<>> /\ xPrefs = Prefs({}, {}, {}) /\ xWide = Prefs({}, {}, {})
    /\ xSlots = <<>> /\ xWideSlots = <<>> /\ xPc = "idle"

\* nothing is being converted
IdleTime ==
    /\ tIn = [h |-> 12, m |-> 0, ap |-> AM, padded |-> FALSE]
    /\ t24 = <<>> /\ t12 = <<>> /\ tPc = "idle"

Init == InitOps /\ IdleExtract /\ IdleTime

\* ------------------------------------------------------- request handlers
\* PreferencesSchema of the /check_now body
ValidPrefs(p) ==
    /\ \A h \in p.start_hour : h >= 0 /\ h <= 23
    /\ \A h \in p.end_hour : h >= 1 /\ h <= 24
    /\ \A m \in p.min_minutes : m >= 30 /\ m <= 120

\* /^\d{2}:\d{2}$/
IsHHMM(t) ==
    /\ Len(t) = 5
    /\ IsDigit(t[1]) /\ IsDigit(t[2]) /\ t[3] = ":"
    /\ IsDigit(t[4]) /\ IsDigit(t[5])

\* BookingRequestSchema of the /book body
ValidBooking(b) ==
    /\ b.facility_url # "notAUrl"
    /\ IsHHMM(b.time_24h)
    /\ b.duration_hours \in {1, 2}
    /\ b.num_people \in {1, 2, 3, 4}

\* requireBearer: no token, or a token other than BOOKER_GPT_TOKEN
Unauthorized ==
    /\ pc = "idle"
    /\ endpoint' \in ProtectedRoutes /\ tokenOk' = FALSE
    /\ resp' = 401 /\ pc' = "responded"
    /\ UNCHANGED <<inVars, browser, thrown, failedAt, retval, outcome, url, loginVars,
                   acts, bookVars, scanVars>>
    /\ UNCHANGED <<callVars, pureVars, nIn, sends>>

\* GET / and GET /health: registered without requireBearer
Public ==
    /\ pc = "idle"
    /\ endpoint' \in PublicRoutes /\ tokenOk' \in BOOLEAN
    /\ resp' = 200 /\ pc' = "responded"
    /\ UNCHANGED <<inVars, browser, thrown, failedAt, retval, outcome, url, loginVars,
                   acts, bookVars, scanVars>>
    /\ UNCHANGED <<callVars, pureVars, nIn, sends>>

\* POST /check_now with a valid token: parse, then checkAvailability
CheckNow ==
    /\ pc = "idle"
    /\ \E p \in PrefsBodies, v \in {"sorted", "guarded"} :
         IF ValidPrefs(p)
         THEN /\ op' = "check" /\ prefs' = p /\ variant' = v
              /\ pc' = "launch" /\ resp' = resp
         ELSE /\ resp' = 400 /\ pc' = "responded"
              /\ UNCHANGED <<op, prefs, variant>>
    /\ endpoint' = "/check_now" /\ tokenOk' = TRUE
    /\ UNCHANGED <<req, credsOk, browser, thrown, failedAt, retval, outcome, url,
                   loginVars, acts, bookVars, scanVars>>
    /\ UNCHANGED <<callVars, pureVars, nIn, sends>>

\* POST /book with a valid token: parse, then bookSlot
Book ==
    /\ pc = "idle"
    /\ \E b \in BookBodies :
         IF ValidBooking(b)
         THEN /\ op' = "book" /\ req' = b
              /\ pc' = "launch" /\ resp' = resp
         ELSE /\ resp' = 400 /\ pc' = "responded"
              /\ UNCHANGED <<op, req>>
    /\ endpoint' = "/book" /\ tokenOk' = TRUE
    /\ UNCHANGED <<variant, prefs, credsOk, browser, thrown, failedAt, retval, outcome,
                   url, loginVars, acts, bookVars, scanVars>>
    /\ UNCHANGED <<callVars, pureVars, nIn, sends>>

\* a notify() that tries email before Telegram
notifyEmailFirst(in) ==
    LET userChat == Trim(in.userChat)
        defaultChat == Trim(in.defaultChat)
        chatId == IF userChat # <<>> THEN userChat ELSE defaultChat
        to == Trim(IF in.userEmail # <<>> THEN in.userEmail ELSE in.defaultEmail)
    IN IF in.smtp /\ to # <<>> THEN [via |-> "email", to |-> to]
       ELSE IF in.telegram /\ chatId # <<>> THEN [via |-> "telegram", to |-> chatId]
       ELSE [via |-> "none", to |-> <<>>]

\* notify(): Telegram when it is configured and a chat id is there, else
\* email when SMTP is configured and a recipient is there, else nothing
notify(in) ==
    LET userChat == Trim(in.userChat)
        defaultChat == Trim(in.defaultChat)
        chatId == IF userChat # <<>> THEN userChat ELSE defaultChat
        to == Trim(IF in.userEmail # <<>> THEN in.userEmail ELSE in.defaultEmail)
    IN IF in.telegram /\ chatId # <<>> THEN [via |-> "telegram", to |-> chatId]
       ELSE IF in.smtp /\ to # <<>> THEN [via |-> "email", to |-> to]
       ELSE [via |-> "none", to |-> <<>>]

\* POST /notify with a valid token: parse, then notify; a body the schema
\* refuses, no usable channel and a failed delivery are all answered 502
Notify ==
    /\ pc = "idle"
    /\ endpoint' = "/notify" /\ tokenOk' = TRUE
    /\ \E in \in NotifyInputs, bodyOk \in BOOLEAN, delivered \in BOOLEAN :
         IF ~bodyOk
         THEN resp' = 502 /\ UNCHANGED <<nIn, sends>>
         ELSE /\ nIn' = in
              /\ \E ch \in {notify(in)} :
                    IF ch.via = "none"
                    THEN resp' = 502 /\ sends' = <<>>
                    ELSE /\ sends' = <<ch>>
                         /\ resp' = IF delivered THEN 200 ELSE 502
    /\ pc' = "responded"
    /\ UNCHANGED <<inVars, browser, thrown, failedAt, retval, outcome, url, loginVars,
                   acts, bookVars, scanVars>>
    /\ UNCHANGED <<callVars, pureVars>>

\* a handler that answers 200 whatever the call did
StatusForAlwaysOk(o, operation, value) == 200

\* the handler's answer once the call has settled
StatusFor(o, operation, value) ==
    IF o = "rejected" THEN 400
    ELSE IF operation = "book" /\ ~value.success THEN 400
    ELSE 200

Respond ==
    /\ pc = "settled"
    /\ resp' = StatusFor(outcome, op, IF retval = <<>> THEN <<>> ELSE retval[1])
    /\ pc' = "responded"
    /\ UNCHANGED <<inVars, browser, thrown, failedAt, retval, outcome, url, loginVars,
                   acts, bookVars, scanVars>>
    /\ UNCHANGED <<callVars, pureVars, httpVars>>

\* ---------------------------------------------------- session acquisition
\* chromium.launch(): the call rejects when the browser cannot be started
Launch ==
    /\ pc = "launch"
    /\ \/ /\ browser' = "open" /\ pc' = "newContext"
          /\ UNCHANGED <<thrown, failedAt, outcome>>
       \/ \E e \in ErrorMessages :
            /\ thrown' = <<e>> /\ failedAt' = pc
            /\ outcome' = "rejected" /\ pc' = "settled"
            /\ UNCHANGED browser
    /\ UNCHANGED <<inVars, retval, resp, url, loginVars, acts, bookVars, scanVars>>
    /\ UNCHANGED <<callVars, pureVars, httpVars>>

\* browser.newContext(), before the try block
NewContext ==
    /\ pc = "newContext"
    /\ \/ /\ pc' = "newPage" /\ UNCHANGED <<thrown, failedAt, outcome>>
       \/ \E e \in ErrorMessages :
            /\ thrown' = <<e>> /\ failedAt' = pc
            /\ outcome' = "rejected" /\ pc' = "settled"
    /\ UNCHANGED <<inVars, browser, retval, resp, url, loginVars, acts,
                   bookVars, scanVars>>
    /\ UNCHANGED <<callVars, pureVars, httpVars>>

\* context.newPage(), before the try block
NewPage ==
    /\ pc = "newPage"
    /\ \/ /\ pc' = "goto" /\ UNCHANGED <<thrown, failedAt, outcome>>
       \/ \E e \in ErrorMessages :
            /\ thrown' = <<e>> /\ failedAt' = pc
            /\ outcome' = "rejected" /\ pc' = "settled"
    /\ UNCHANGED <<inVars, browser, retval, resp, url, loginVars, acts,
                   bookVars, scanVars>>
    /\ UNCHANGED <<callVars, pureVars, httpVars>>

\* finally { await browser.close() }: then the call returns or rejects.
\* The attendee rows read by the attendee step are gone with the page
Finally ==
    /\ pc = "finally"
    /\ browser' = "closed"
    /\ outcome' = IF thrown # <<>> THEN "rejected" ELSE "returned"
    /\ rows' = <<>> /\ selIdx' = 0
    /\ pc' = "settled"
    /\ UNCHANGED <<inVars, thrown, failedAt, retval, resp, url, loginVars, acts,
                   markers, targetIdx, step1, attendeeCount, selName,
                   attendeeSelected, pageConf, pageErr, scanVars>>
    /\ UNCHANGED <<callVars, pureVars, httpVars>>

\* ------------------------------------------------------- results, errors
\* a message built from a template literal: its fixed text, the text
\* interpolated after it, and a time when one is interpolated
Msg(prefix, detail, time) == [prefix |-> prefix, detail |-> detail, time |-> time]

MsgNonEmpty(m) == m.prefix # "" \/ m.detail # "" \/ m.time # <<>>

\* { success: false, message }
FailureResult(m) ==
    [success |-> FALSE, message |-> m, confirmation_number |-> "absent",
     booked_slot |-> <<>>]

\* { success: true, confirmation_number, message, booked_slot: {...} }
SuccessResult(conf, request, location) ==
    [success |-> TRUE,
     message |-> Msg("Booking completed successfully", "", <<>>),
     confirmation_number |-> conf,
     booked_slot |-> << [time |-> request.time_24h,
                         duration |-> request.duration_hours * 60,
                         location |-> location] >>]

\* catch (error) of bookSlot: `Booking failed: ${error?.message || "Unknown error"}`
CaughtResult(e) ==
    FailureResult(Msg("Booking failed: ", IF e = "" THEN "Unknown error" ELSE e, <<>>))

\* an error raised inside the try block of the operation: bookSlot catches
\* it, checkAvailability lets it propagate; both run the finally block
Throw(e) ==
    /\ pc' = "finally"
    /\ failedAt' = pc
    /\ IF op = "book"
       THEN retval' = <<CaughtResult(e)>> /\ UNCHANGED thrown
       ELSE thrown' = <<e>> /\ UNCHANGED retval

\* a return statement inside the try block
Return(v) ==
    pc' = "finally" /\ retval' = <<v>> /\ UNCHANGED <<thrown, failedAt>>

\* positions of the scan, inside the inner try of the "guarded" variant
ScanPcs == {"s_count", "s_open", "s_extract", "s_back"}

\* positions whose next await can reject (a navigation error, a timed-out
\* wait, a detached element) and is not guarded by a .catch
ThrowPcs ==
    {"goto", "li_click", "li_fields", "li_fill", "li_settle",
     "li_back", "b_navback", "b_scan", "b_slotClick",
     "b_setAttendees", "b_reserveClick", "b_reauth", "b_retry",
     "b_attendees", "b_nextClick", "b_nextWait", "b_payment", "b_order",
     "b_orderWait",
     "s_count", "s_open", "s_extract", "s_back"}

\* the two conditional navigations await nothing when the page is already
\* where it should be
Raise ==
    /\ pc \in ThrowPcs
    /\ ~(op = "check" /\ variant = "guarded" /\ pc \in ScanPcs)
    /\ pc = "li_back" => ~OnLanding(url)
    /\ pc = "b_navback" => ~OnFacility(url)
    /\ \E e \in ErrorMessages : Throw(e)
    /\ opened' = IF pc = "s_open" THEN Append(opened, courtIdx) ELSE opened
    /\ UNCHANGED <<inVars, browser, outcome, resp, url, loginVars, acts,
                   bookVars, courtCount, courtIdx, allSlots, labelSeen>>
    /\ UNCHANGED <<callVars, pureVars, httpVars>>

\* page.goto(BASE_URL) of checkAvailability, page.goto(request.facility_url)
\* of bookSlot
Goto ==
    /\ pc = "goto"
    /\ url' = IF op = "check" THEN "list"
              ELSE IF req.facility_url = "facility" THEN "facility" ELSE "other"
    /\ pc' = "li_check"
    /\ UNCHANGED <<inVars, browser, thrown, failedAt, retval, outcome, resp, loginVars,
                   acts, bookVars, scanVars>>
    /\ UNCHANGED <<callVars, pureVars, httpVars>>

\* ------------------------------------------------------------- login flow
\* where ensureLoggedIn returns to
AfterLogin == IF op = "check" THEN "s_count" ELSE "b_navback"

\* a login check that reloads the landing page before it answers
LoginCheckReloads ==
    /\ pc = "li_check"
    /\ \E loginVisible \in BOOLEAN :
         IF loginVisible
         THEN pc' = "li_click" /\ loginCount' = loginCount + 1
         ELSE pc' = AfterLogin /\ UNCHANGED loginCount
    /\ url' = "list"
    /\ UNCHANGED <<inVars, browser, thrown, failedAt, retval, outcome, resp,
                   cwlClicked, cwlVis, credFilled, acts, bookVars, scanVars>>
    /\ UNCHANGED <<callVars, pureVars, httpVars>>

\* ensureLoggedIn: probe for a visible Login affordance
LoginCheck ==
    /\ pc = "li_check"
    /\ \E loginVisible \in BOOLEAN :
         IF loginVisible
         THEN pc' = "li_click" /\ loginCount' = loginCount + 1
         ELSE pc' = AfterLogin /\ UNCHANGED loginCount
    /\ UNCHANGED <<inVars, browser, thrown, failedAt, retval, outcome, resp, url,
                   cwlClicked, cwlVis, credFilled, acts, bookVars, scanVars>>
    /\ UNCHANGED <<callVars, pureVars, httpVars>>

\* click Login, follow the page it opens, wait for it to load
LoginClick ==
    /\ pc = "li_click"
    /\ url' = "portal"
    /\ pc' = "li_cwl"
    /\ UNCHANGED <<inVars, browser, thrown, failedAt, retval, outcome, resp, loginVars,
                   acts, bookVars, scanVars>>
    /\ UNCHANGED <<callVars, pureVars, httpVars>>

\* a variant that takes the last visible candidate of the list
FirstVisibleLast(vis) ==
    IF \E i \in DOMAIN vis : vis[i]
    THEN CHOOSE i \in DOMAIN vis : vis[i] /\ \A j \in DOMAIN vis : j > i => ~vis[j]
    ELSE 0

\* the first visible candidate of the ordered list, 0 when none is visible
FirstVisible(vis) ==
    IF \E i \in DOMAIN vis : vis[i]
    THEN CHOOSE i \in DOMAIN vis : vis[i] /\ \A j \in 1..(i - 1) : ~vis[j]
    ELSE 0

\* the CWL Login affordance: the candidates are probed in order and the
\* first visible one is clicked, a click or a load wait that can reject;
\* with none visible nothing is awaited and the flow goes on
LoginCwl ==
    /\ pc = "li_cwl"
    /\ \E vis \in [1..CwlCandidates -> BOOLEAN] :
         /\ cwlVis' = vis
         /\ cwlClicked' = FirstVisible(vis)
         /\ IF FirstVisible(vis) = 0
            THEN pc' = "li_creds" /\ UNCHANGED <<thrown, failedAt, retval>>
            ELSE \/ pc' = "li_creds" /\ UNCHANGED <<thrown, failedAt, retval>>
                 \/ \E e \in ErrorMessages : Throw(e)
    /\ UNCHANGED <<inVars, browser, outcome, resp, url,
                   loginCount, credFilled, acts, bookVars, scanVars>>
    /\ UNCHANGED <<callVars, pureVars, httpVars>>

\* a variant that types the credentials before the fields were waited for
LoginCredsFillsEarly ==
    /\ pc = "li_creds"
    /\ \E ok \in BOOLEAN :
         /\ credsOk' = ok
         /\ IF ok
            THEN /\ pc' = "li_fields" /\ credFilled' = TRUE
                 /\ UNCHANGED <<thrown, failedAt, retval>>
            ELSE Throw("UBC_USER and UBC_PASS must be set in environment")
                 /\ UNCHANGED credFilled
    /\ UNCHANGED <<op, variant, req, prefs, browser, outcome, resp, url,
                   loginCount, cwlClicked, cwlVis, acts, bookVars, scanVars>>
    /\ UNCHANGED <<callVars, pureVars, httpVars>>

\* read UBC_USER and UBC_PASS; if (!user || !pass) throw
LoginCreds ==
    /\ pc = "li_creds"
    /\ \E ok \in BOOLEAN :
         /\ credsOk' = ok
         /\ IF ok
            THEN pc' = "li_fields" /\ UNCHANGED <<thrown, failedAt, retval>>
            ELSE Throw("UBC_USER and UBC_PASS must be set in environment")
    /\ UNCHANGED <<op, variant, req, prefs, browser, outcome, resp, url,
                   loginVars, acts, bookVars, scanVars>>
    /\ UNCHANGED <<callVars, pureVars, httpVars>>

\* usernameLocator.waitFor, passwordLocator.waitFor: both fields appeared
LoginFields ==
    /\ pc = "li_fields"
    /\ pc' = "li_fill"
    /\ UNCHANGED <<inVars, browser, thrown, failedAt, retval, outcome, resp, url,
                   loginVars, acts, bookVars, scanVars>>
    /\ UNCHANGED <<callVars, pureVars, httpVars>>

\* fill both fields, click submit
LoginFill ==
    /\ pc = "li_fill"
    /\ credFilled' = TRUE
    /\ pc' = "li_settle"
    /\ UNCHANGED <<inVars, browser, thrown, failedAt, retval, outcome, resp, url,
                   loginCount, cwlClicked, cwlVis, acts, bookVars, scanVars>>
    /\ UNCHANGED <<callVars, pureVars, httpVars>>

\* waitForLoadState("networkidle"): the redirect chain has settled somewhere
LoginSettle ==
    /\ pc = "li_settle"
    /\ url' \in {"list", "other"}
    /\ pc' = "li_back"
    /\ UNCHANGED <<inVars, browser, thrown, failedAt, retval, outcome, resp, loginVars,
                   acts, bookVars, scanVars>>
    /\ UNCHANGED <<callVars, pureVars, httpVars>>

\* navigate back to BASE_URL unless already there, return authPage; the
\* locals of ensureLoggedIn (the CWL locator, user, pass) end with the call
LoginBack ==
    /\ pc = "li_back"
    /\ url' = IF OnLanding(url) THEN url ELSE "list"
    /\ cwlClicked' = 0 /\ credsOk' = TRUE
    /\ cwlVis' = [i \in 1..CwlCandidates |-> FALSE]
    /\ pc' = AfterLogin
    /\ UNCHANGED <<op, variant, req, prefs, browser, thrown, failedAt, retval, outcome,
                   resp, loginCount, credFilled, acts, bookVars, scanVars>>
    /\ UNCHANGED <<callVars, pureVars, httpVars>>

\* ------------------------------------------------------- booking pipeline
\* if the login flow left the facility page, navigate back to it
BookNavBack ==
    /\ pc = "b_navback"
    /\ url' = IF OnFacility(url) THEN url
              ELSE IF req.facility_url = "facility" THEN "facility" ELSE "other"
    /\ pc' = "b_scan"
    /\ UNCHANGED <<inVars, browser, thrown, failedAt, retval, outcome, resp, loginVars,
                   acts, bookVars, scanVars>>
    /\ UNCHANGED <<callVars, pureVars, httpVars>>

\* step 1 taking the first span whatever its title
TargetSpanAnyTitle(spans, time_24h) == IF spans # <<>> THEN 1 ELSE 0

\* step 1: the first span whose title includes the 12-hour label, 0 if none
TargetSpan(spans, time_24h) ==
    LET hit(i) == Includes(ToLower(spans[i].title), ToLower(time12hOf(time_24h)))
    IN IF \E i \in DOMAIN spans : hit(i)
       THEN CHOOSE i \in DOMAIN spans : hit(i) /\ \A j \in 1..(i - 1) : ~hit(j)
       ELSE 0

BookScan ==
    /\ pc = "b_scan"
    /\ \E ms \in MarkerLists :
         /\ markers' = ms
         /\ targetIdx' = TargetSpan(ms, req.time_24h)
         /\ step1' = IF targetIdx' = 0 THEN "null" ELSE "found"
         /\ IF targetIdx' = 0
            THEN Return(FailureResult(Msg("Could not find available slot at ",
                                          "", req.time_24h)))
            ELSE pc' = "b_slotClick" /\ UNCHANGED <<thrown, failedAt, retval>>
    /\ UNCHANGED <<inVars, browser, outcome, resp, url, loginVars, acts,
                   attendeeCount, rows, selName, selIdx, attendeeSelected,
                   pageConf, pageErr, scanVars>>
    /\ UNCHANGED <<callVars, pureVars, httpVars>>

\* targetSpan.click()
BookSlotClick ==
    /\ pc = "b_slotClick"
    /\ acts' = Append(acts, "slotClick")
    /\ pc' = "b_reserveVisible"
    /\ UNCHANGED <<inVars, browser, thrown, failedAt, retval, outcome, resp, url,
                   loginVars, bookVars, scanVars>>
    /\ UNCHANGED <<callVars, pureVars, httpVars>>

\* step 2: the Reserve button must be visible within the wait
BookReserveVisible ==
    /\ pc = "b_reserveVisible"
    /\ \E visible \in BOOLEAN :
         IF visible
         THEN pc' = "b_setAttendees" /\ UNCHANGED <<thrown, failedAt, retval>>
         ELSE Return(FailureResult(
                  Msg("Reserve button not found after clicking Book Now", "", <<>>)))
    /\ UNCHANGED <<inVars, browser, outcome, resp, url, loginVars, acts,
                   bookVars, scanVars>>
    /\ UNCHANGED <<callVars, pureVars, httpVars>>

\* clear the overlays, then set the attendee-count control: `found` is whether
\* page.evaluate found one of the three controls it tries
BookSetAttendees ==
    /\ pc = "b_setAttendees"
    /\ \E found \in BOOLEAN :
         attendeeCount' = IF found
                          THEN (IF req.num_people = 0 THEN 2 ELSE req.num_people)
                          ELSE 0
    /\ pc' = "b_reserveClick"
    /\ UNCHANGED <<inVars, browser, thrown, failedAt, retval, outcome, resp, url,
                   loginVars, acts, markers, targetIdx, step1, rows, selName,
                   selIdx, attendeeSelected, pageConf, pageErr, scanVars>>
    /\ UNCHANGED <<callVars, pureVars, httpVars>>

\* a pipeline that goes on to the attendee step wherever the page is
AfterReserveNoFacilityCheck(u) == IF AtLoginBoundary(u) THEN "b_reauth"
                                  ELSE "b_attendees"

\* where the pipeline goes once the URL after Reserve is known
AfterReserve(u) == IF AtLoginBoundary(u) THEN "b_reauth"
                   ELSE IF OnFacility(u) THEN "b_retry"
                   ELSE "b_attendees"

\* reserveButton.click({force: true}), then the bounded waits for the URL to
\* change: the portal decides where the page ends up
BookReserveClick ==
    /\ pc = "b_reserveClick"
    /\ acts' = Append(acts, "reserveClick")
    /\ \E u \in {"facility", "portal", "portalRet", "attendee", "other"} :
         /\ url' = u
         /\ markers' = IF OnFacility(u) THEN markers ELSE <<>>
         /\ targetIdx' = IF OnFacility(u) THEN targetIdx ELSE 0
         /\ attendeeCount' = IF OnFacility(u) THEN attendeeCount ELSE 0
         /\ pc' = AfterReserve(u)
    /\ UNCHANGED <<inVars, browser, thrown, failedAt, retval, outcome, resp,
                   loginVars, step1, rows, selName, selIdx, attendeeSelected,
                   pageConf, pageErr, scanVars>>
    /\ UNCHANGED <<callVars, pureVars, httpVars>>

\* step 3 of the spec: the inline login on the portal, then returnUrl. When
\* the form is visible UBC_USER and UBC_PASS are read again and typed as they
\* are; they are the values ensureLoggedIn read if it read them in this call
BookReauth ==
    /\ pc = "b_reauth"
    /\ \E formVisible \in BOOLEAN, settled \in {"attendee", "facility", "other"},
          ok \in (IF loginCount > 0 THEN {TRUE} ELSE BOOLEAN) :
         LET after == IF formVisible THEN settled ELSE url
             final == IF HasReturnUrl(url) /\ ~OnAttendeePage(after)
                      THEN "attendee" ELSE after
         IN /\ credsOk' = IF formVisible THEN ok ELSE credsOk
            /\ credFilled' = (credFilled \/ formVisible)
            /\ acts' = IF formVisible THEN Append(acts, "reauth") ELSE acts
            /\ url' = final
            /\ pc' = IF OnFacility(final) THEN "b_retry" ELSE "b_attendees"
    /\ UNCHANGED <<op, variant, req, prefs, browser, thrown, failedAt, retval, outcome, resp, loginCount,
                   cwlClicked, cwlVis, bookVars, scanVars>>
    /\ UNCHANGED <<callVars, pureVars, httpVars>>

\* still on the facility page: click Reserve again, try the alternative
\* button, give up if the page has not moved
BookRetry ==
    /\ pc = "b_retry"
    /\ \E altVisible \in BOOLEAN, final \in {"facility", "attendee"},
          errorMsg \in {"", "Court is no longer available"} :
         /\ acts' = IF altVisible
                    THEN acts \o <<"reserveClick", "altClick">>
                    ELSE Append(acts, "reserveClick")
         /\ url' = final
         /\ markers' = IF OnFacility(final) THEN markers ELSE <<>>
         /\ targetIdx' = IF OnFacility(final) THEN targetIdx ELSE 0
         /\ attendeeCount' = IF OnFacility(final) THEN attendeeCount ELSE 0
         /\ IF OnFacility(final)
            THEN Return(FailureResult(
                     IF errorMsg # ""
                     THEN Msg("Could not proceed with booking: ", errorMsg, <<>>)
                     ELSE Msg("Reserve button click did not navigate to attendee selection page",
                              "", <<>>)))
            ELSE pc' = "b_attendees" /\ UNCHANGED <<thrown, failedAt, retval>>
    /\ UNCHANGED <<inVars, browser, outcome, resp, loginVars, step1, rows,
                   selName, selIdx, attendeeSelected, pageConf, pageErr,
                   scanVars>>
    /\ UNCHANGED <<callVars, pureVars, httpVars>>

\* step 4 of the spec, first loop: the first visible "(You)" row that is not
\* disabled ends the loop; 0 when there is none
YouIdx(rs) ==
    LET ok(i) == ~rs[i].hidden /\ rs[i].you /\ ~rs[i].disabled
    IN IF \E i \in DOMAIN rs : ok(i)
       THEN CHOOSE i \in DOMAIN rs : ok(i) /\ \A j \in 1..(i - 1) : ~ok(j)
       ELSE 0

\* selectedAttendeeName after the first loop is non-empty: some visible row
\* carries "(You)", disabled or not
YouSeen(rs) == \E i \in DOMAIN rs : ~rs[i].hidden /\ rs[i].you

\* fallback loop: the first row that is neither disabled nor hidden and has
\* an enabled checkbox; 0 when there is none
FallbackIdx(rs) ==
    LET ok(i) == ~rs[i].disabled /\ ~rs[i].hidden /\ rs[i].hasBox
    IN IF \E i \in DOMAIN rs : ok(i)
       THEN CHOOSE i \in DOMAIN rs : ok(i) /\ \A j \in 1..(i - 1) : ~ok(j)
       ELSE 0

\* the attendee step on rows rs: whether selectedAttendeeName ends non-empty,
\* the row it settled on, whether an attendee is selected afterwards, whether
\* a click was made
SelectAttendee(rs) ==
    IF YouSeen(rs)
    THEN LET y == YouIdx(rs) IN
         [named |-> TRUE,
          idx |-> y,
          selected |-> y # 0,
          clicked |-> y # 0 /\ ~(rs[y].hasBox /\ rs[y].checked)]
    ELSE LET f == FallbackIdx(rs) IN
         [named |-> f # 0 /\ ~rs[f].labelEmpty,
          idx |-> f,
          selected |-> f # 0,
          clicked |-> f # 0 /\ ~rs[f].checked]

BookAttendees ==
    /\ pc = "b_attendees"
    /\ \E rs \in RowLists :
         LET sel == SelectAttendee(rs) IN
         /\ rows' = rs
         /\ selName' = sel.named
         /\ selIdx' = sel.idx
         /\ attendeeSelected' = sel.selected
         /\ acts' = IF sel.clicked THEN Append(acts, "attendeeClick") ELSE acts
         /\ IF ~sel.named
            THEN Return(FailureResult(
                     Msg("Could not select any attendee - none available or all disabled",
                         "", <<>>)))
            ELSE pc' = "b_next" /\ UNCHANGED <<thrown, failedAt, retval>>
    /\ UNCHANGED <<inVars, browser, outcome, resp, url, loginVars, markers,
                   targetIdx, step1, attendeeCount, pageConf, pageErr,
                   scanVars>>
    /\ UNCHANGED <<callVars, pureVars, httpVars>>

\* the Next button: eight selectors in order, the first visible one; the
\* attendee rows are not read again
BookNext ==
    /\ pc = "b_next"
    /\ \E found \in BOOLEAN :
         IF found
         THEN pc' = "b_nextClick" /\ UNCHANGED <<thrown, failedAt, retval>>
         ELSE Return(FailureResult(
                  Msg("Next button not found on attendee selection page", "", <<>>)))
    /\ rows' = <<>> /\ selIdx' = 0
    /\ UNCHANGED <<inVars, browser, outcome, resp, url, loginVars, acts,
                   markers, targetIdx, step1, attendeeCount, selName,
                   attendeeSelected, pageConf, pageErr, scanVars>>
    /\ UNCHANGED <<callVars, pureVars, httpVars>>

\* nextButton.click()
BookNextClick ==
    /\ pc = "b_nextClick"
    /\ acts' = Append(acts, "nextClick")
    /\ pc' = "b_nextWait"
    /\ UNCHANGED <<inVars, browser, thrown, failedAt, retval, outcome, resp, url,
                   loginVars, bookVars, scanVars>>
    /\ UNCHANGED <<callVars, pureVars, httpVars>>

\* waitForLoadState("networkidle", 30 s): the payment page has loaded
BookNextWait ==
    /\ pc = "b_nextWait"
    /\ url' = "payment"
    /\ pc' = "b_payment"
    /\ UNCHANGED <<inVars, browser, thrown, failedAt, retval, outcome, resp, loginVars,
                   acts, bookVars, scanVars>>
    /\ UNCHANGED <<callVars, pureVars, httpVars>>

\* step 4 of the code: select the stored card if one is offered
BookPayment ==
    /\ pc = "b_payment"
    /\ \E cardVisible \in BOOLEAN :
         acts' = IF cardVisible THEN Append(acts, "paySelect") ELSE acts
    /\ pc' = "b_orderVisible"
    /\ UNCHANGED <<inVars, browser, thrown, failedAt, retval, outcome, resp, url,
                   loginVars, bookVars, scanVars>>
    /\ UNCHANGED <<callVars, pureVars, httpVars>>

\* step 5: the Place My Order button must be visible within the wait
BookOrderVisible ==
    /\ pc = "b_orderVisible"
    /\ \E visible \in BOOLEAN :
         IF visible
         THEN pc' = "b_order" /\ UNCHANGED <<thrown, failedAt, retval>>
         ELSE Return(FailureResult(Msg("Place My Order button not found", "", <<>>)))
    /\ UNCHANGED <<inVars, browser, outcome, resp, url, loginVars, acts,
                   bookVars, scanVars>>
    /\ UNCHANGED <<callVars, pureVars, httpVars>>

\* the order-submit click repeated when the button is still there
BookOrderClicksTwice ==
    /\ pc = "b_order"
    /\ acts' = acts \o <<"orderSubmit", "orderSubmit">>
    /\ pageConf' \in BOOLEAN
    /\ pageErr' \in {"", "No remaining capacity"}
    /\ pc' = "b_orderWait"
    /\ UNCHANGED <<inVars, browser, thrown, failedAt, retval, outcome, resp, url,
                   loginVars, markers, targetIdx, step1, attendeeCount, rows,
                   selName, selIdx, attendeeSelected, scanVars>>
    /\ UNCHANGED <<callVars, pureVars, httpVars>>

\* placeOrderButton.click(): the portal processes the order, and the page it
\* answers with shows confirmation language, an error element, both or neither
BookOrder ==
    /\ pc = "b_order"
    /\ acts' = Append(acts, "orderSubmit")
    /\ pageConf' \in BOOLEAN
    /\ pageErr' \in {"", "No remaining capacity"}
    /\ pc' = "b_orderWait"
    /\ UNCHANGED <<inVars, browser, thrown, failedAt, retval, outcome, resp, url,
                   loginVars, markers, targetIdx, step1, attendeeCount, rows,
                   selName, selIdx, attendeeSelected, scanVars>>
    /\ UNCHANGED <<callVars, pureVars, httpVars>>

\* waitForLoadState("networkidle", 60 s): the order has been processed
BookOrderWait ==
    /\ pc = "b_orderWait"
    /\ pc' = "b_classify"
    /\ UNCHANGED <<inVars, browser, thrown, failedAt, retval, outcome, resp, url,
                   loginVars, acts, bookVars, scanVars>>
    /\ UNCHANGED <<callVars, pureVars, httpVars>>

\* the verdict on the page after the order: failure when an error text is
\* shown and no confirmation language is
OrderFailed(hasConfirmation, errorText) == errorText # "" /\ ~hasConfirmation

BookClassify ==
    /\ pc = "b_classify"
    /\ \E conf \in {"undefined", "R-1001"},
          courtName \in {"Court 01", "Unknown Court"} :
         LET hasConfirmation == pageConf
             errorText == pageErr
         IN IF OrderFailed(hasConfirmation, errorText)
            THEN Return(FailureResult(Msg("Booking failed: ", errorText, <<>>)))
            ELSE Return(SuccessResult(conf, req, courtName))
    /\ UNCHANGED <<inVars, browser, outcome, resp, url, loginVars, acts,
                   bookVars, scanVars>>
    /\ UNCHANGED <<callVars, pureVars, httpVars>>

\* ------------------------------------------------------ slot extraction
\* first index >= i of t that holds no space (Len(t) + 1 when there is none)
RECURSIVE SkipSpaces(_, _)
SkipSpaces(t, i) == IF i <= Len(t) /\ t[i] = " " THEN SkipSpaces(t, i + 1) ELSE i

\* [0-9]{1,2}:[0-9]{2}\s*(?:AM|PM) matched at index i of t: the index of its
\* last character, 0 when it does not match there; fold is the /i flag
LabelEnd(t, i, fold) ==
    LET at(k) == IF k >= 1 /\ k <= Len(t) THEN t[k] ELSE ""
        c == IF IsDigit(at(i)) /\ IsDigit(at(i + 1)) /\ at(i + 2) = ":" THEN i + 2
             ELSE IF IsDigit(at(i)) /\ at(i + 1) = ":" THEN i + 1
             ELSE 0
        k == SkipSpaces(t, c + 3)
        ap == <<at(k), at(k + 1)>>
    IN IF c # 0 /\ IsDigit(at(c + 1)) /\ IsDigit(at(c + 2))
          /\ (IF fold THEN ToUpper(ap) ELSE ap) \in {AM, PM}
       THEN k + 1 ELSE 0

\* the two groups of the time-range pattern on a title, <<>> when no match
TitleMatchAt(t, i) ==
    LET e1 == LabelEnd(t, i, FALSE)
        d == SkipSpaces(t, e1 + 1)
        s2 == SkipSpaces(t, d + 1)
        e2 == LabelEnd(t, s2, FALSE)
    IN IF e1 # 0 /\ d <= Len(t) /\ t[d] = "-" /\ e2 # 0
       THEN <<SubSeq(t, i, e1), SubSeq(t, s2, e2)>>
       ELSE <<>>

TitleMatch(t) ==
    IF \E i \in DOMAIN t : TitleMatchAt(t, i) # <<>>
    THEN TitleMatchAt(t, CHOOSE i \in DOMAIN t :
                             /\ TitleMatchAt(t, i) # <<>>
                             /\ \A j \in 1..(i - 1) : TitleMatchAt(t, j) = <<>>)
    ELSE <<>>

\* a date test that takes any annotation that is there
IsIsoDateAnyText(d) == d # <<>>

\* /^\d{4}-\d{2}-\d{2}$/
IsIsoDate(d) ==
    /\ Len(d) = 10
    /\ \A i \in {1, 2, 3, 4, 6, 7, 9, 10} : IsDigit(d[i])
    /\ d[5] = "-" /\ d[8] = "-"

\* a filter that leaves start_hour out
PassesPrefsNoStart(p, start24, mins) ==
    /\ \A h \in p.end_hour : ~(HourOf(start24) >= h)
    /\ \A m \in p.min_minutes : ~(mins < m)

\* a filter that tests end_hour the wrong way round
PassesPrefsEndInverted(p, start24, mins) ==
    /\ \A h \in p.start_hour : ~(HourOf(start24) < h)
    /\ \A h \in p.end_hour : ~(HourOf(start24) < h)
    /\ \A m \in p.min_minutes : ~(mins < m)

\* the three preference filters on a start time and a duration
PassesPrefs(p, start24, mins) ==
    /\ \A h \in p.start_hour : ~(HourOf(start24) < h)
    /\ \A h \in p.end_hour : ~(HourOf(start24) >= h)
    /\ \A m \in p.min_minutes : ~(mins < m)

Slot(date, time, mins, location, link) ==
    [date_iso |-> date, time_24h |-> time, minutes |-> mins,
     location |-> location, deep_link |-> link]

\* the slot one marker yields, <<>> when the marker is skipped
SlotOfMarker(m, p, courtLabel, link) ==
    LET match == TitleMatch(m.title)
        start24 == IF match = <<>> THEN NoTime ELSE to24h(match[1])
        end24 == IF match = <<>> THEN NoTime ELSE to24h(match[2])
    IN IF ~m.visible \/ ~m.textOk \/ ~m.available \/ match = <<>>
          \/ start24 = NoTime \/ end24 = NoTime
       THEN <<>>
       ELSE LET mins == durationMinutes(start24, end24) IN
            IF ~PassesPrefs(p, start24, mins) THEN <<>>
            ELSE << Slot(IF IsIsoDate(m.date) THEN m.date ELSE Today,
                         start24, mins, courtLabel, link) >>

RECURSIVE extractSlotsFromScheduler(_, _, _, _)
extractSlotsFromScheduler(ms, p, courtLabel, link) ==
    IF ms = <<>> THEN <<>>
    ELSE SlotOfMarker(ms[1], p, courtLabel, link)
            \o extractSlotsFromScheduler(Tail(ms), p, courtLabel, link)

\* src/ubc.ts: the first time label of a table row's first cell, 24-hour
parseTimeFromText(raw) ==
    LET t == Trim(raw)
        hit(i) == LabelEnd(t, i, TRUE) # 0
    IN IF ~\E i \in DOMAIN t : hit(i) THEN NoTime
       ELSE LET i == CHOOSE k \in DOMAIN t : hit(k) /\ \A j \in 1..(k - 1) : ~hit(j)
            IN to24h(SubSeq(t, i, LabelEnd(t, i, TRUE)))

\* a row of the scheduler table as src/ubc.ts reads it
TableRow(rawTime, bookNow) == [rawTime |-> rawTime, bookNow |-> bookNow]

TableRowKinds ==
    { TableRow(Label12(7, 0, PM), TRUE), TableRow(Label12(3, 0, PM), TRUE),
      TableRow(<<>>, TRUE) }

OrElse(opt, default) == IF opt = {} THEN default ELSE CHOOSE x \in opt : TRUE

SlotOfTableRow(r, p, courtName, link) ==
    LET time24h == parseTimeFromText(r.rawTime) IN
    IF time24h = NoTime THEN <<>>
    ELSE IF HourOf(time24h) < OrElse(p.start_hour, 0)
            \/ HourOf(time24h) >= OrElse(p.end_hour, 24) THEN <<>>
    ELSE IF ~r.bookNow THEN <<>>
    ELSE << Slot(Today, time24h, OrElse(p.min_minutes, 60), courtName, link) >>

RECURSIVE scanSingleCourtPage(_, _, _, _)
scanSingleCourtPage(rs, p, courtName, link) ==
    IF rs = <<>> THEN <<>>
    ELSE SlotOfTableRow(rs[1], p, courtName, link)
            \o scanSingleCourtPage(Tail(rs), p, courtName, link)

\* ------------------------------------------------------------------- scan
ScanCap == 10

Min(a, b) == IF a < b THEN a ELSE b

\* a loop that visits every resource of the list
ScanLimitNoCap(count) == count

\* number of resources the loop visits
ScanLimit(count) == Min(count, ScanCap)

\* numbers of "Choose" affordances a list page shows: few, or more than the
\* loop visits
CourtCounts == (0..MaxCourts) \cup {ScanCap + 1}

SyntheticLabels ==
    <<"Court 1", "Court 2", "Court 3", "Court 4", "Court 5", "Court 6",
      "Court 7", "Court 8", "Court 9", "Court 10", "Court 11">>

\* the label of the i-th resource: the heading of its page, else the heading
\* near its Choose control, else `Court ${i + 1}`
CourtLabel(i, listHeading, pageHeading) ==
    IF pageHeading # "" THEN pageHeading
    ELSE IF listHeading # "" THEN listHeading
    ELSE SyntheticLabels[i]

\* src/ubc.ts inferCourtName: the first line near the control
InferCourtName(firstLine) == IF firstLine # "" THEN firstLine ELSE "Unknown court"

\* the markers offered on a scanned schedule view
ScanMarkerKinds ==
    { Marker(TitleOf(Label12(7, 0, PM), Label12(8, 0, PM)), TRUE, TRUE, TRUE, Tomorrow),
      Marker(TitleOf(Label12Padded(3, 0, PM), Label12Padded(4, 0, PM)), TRUE, TRUE, TRUE, <<>>) }

ScanMarkerLists == SeqsUpTo(ScanMarkerKinds, MaxScanMarkers)
ScanTableRows == SeqsUpTo(TableRowKinds, MaxScanMarkers)

\* what the schedule views of a list of n resources offer: the resources of
\* a list longer than MaxCourts show an empty schedule
MarkersOffered(n) == IF n <= MaxCourts THEN ScanMarkerLists ELSE {<<>>}
RowsOffered(n) == IF n <= MaxCourts THEN ScanTableRows ELSE {<<>>}

\* chooseButtons.count()
ScanCount ==
    /\ pc = "s_count"
    /\ \E n \in CourtCounts :
         /\ courtCount' = n
         /\ IF ScanLimit(n) = 0
            THEN pc' = "c_finish" /\ UNCHANGED courtIdx
            ELSE pc' = "s_open" /\ courtIdx' = 1
    /\ UNCHANGED <<inVars, browser, thrown, failedAt, retval, outcome, resp, url,
                   loginVars, acts, bookVars, allSlots, opened, labelSeen>>
    /\ UNCHANGED <<callVars, pureVars, httpVars>>

\* read the control's href and open the resource's schedule view
ScanOpen ==
    /\ pc = "s_open"
    /\ url' = "facility"
    /\ opened' = Append(opened, courtIdx)
    /\ pc' = "s_extract"
    /\ UNCHANGED <<inVars, browser, thrown, failedAt, retval, outcome, resp, loginVars,
                   acts, bookVars, courtCount, courtIdx, allSlots, labelSeen>>
    /\ UNCHANGED <<callVars, pureVars, httpVars>>

\* read the schedule view of the resource and collect its slots
ScanExtract ==
    /\ pc = "s_extract"
    /\ IF variant = "sorted"
       THEN \E ms \in MarkersOffered(courtCount), listHeading \in {"", "Court 01"},
               pageHeading \in {"", "Tennis Court 01"} :
              /\ labelSeen' = [list |-> listHeading, page |-> pageHeading]
              /\ allSlots' = allSlots \o
                  extractSlotsFromScheduler(ms, prefs,
                      CourtLabel(courtIdx, listHeading, pageHeading), url)
       ELSE \E rs \in RowsOffered(courtCount), firstLine \in {"", "Court 01"},
               pageHeading \in {"", "Tennis Court 01"} :
              /\ labelSeen' = [list |-> firstLine, page |-> pageHeading]
              /\ allSlots' = allSlots \o
                  scanSingleCourtPage(rs, prefs, InferCourtName(firstLine), url)
    /\ pc' = "s_back"
    /\ UNCHANGED <<inVars, browser, thrown, failedAt, retval, outcome, resp, url,
                   loginVars, acts, bookVars, courtCount, courtIdx, opened>>
    /\ UNCHANGED <<callVars, pureVars, httpVars>>

\* a scan that goes on to the next resource from the schedule view it is on
ScanBackStaysOnPage ==
    /\ pc = "s_back"
    /\ IF courtIdx < ScanLimit(courtCount)
       THEN pc' = "s_open" /\ courtIdx' = courtIdx + 1
       ELSE pc' = "c_finish" /\ UNCHANGED courtIdx
    /\ labelSeen' = [list |-> "", page |-> ""]
    /\ UNCHANGED <<inVars, browser, thrown, failedAt, retval, outcome, resp, url,
                   loginVars, acts, bookVars, courtCount, allSlots, opened>>
    /\ UNCHANGED <<callVars, pureVars, httpVars>>

\* page.goto(BASE_URL): back to the resource list, then the next resource
ScanBack ==
    /\ pc = "s_back"
    /\ url' = "list"
    /\ IF courtIdx < ScanLimit(courtCount)
       THEN pc' = "s_open" /\ courtIdx' = courtIdx + 1
       ELSE pc' = "c_finish" /\ UNCHANGED courtIdx
    /\ labelSeen' = [list |-> "", page |-> ""]
    /\ UNCHANGED <<inVars, browser, thrown, failedAt, retval, outcome, resp, loginVars,
                   acts, bookVars, courtCount, allSlots, opened>>
    /\ UNCHANGED <<callVars, pureVars, httpVars>>

\* src/ubc.ts: an error inside the scan. Counting the controls is guarded
\* only by checkAvailability's inner catch, which drops to the placeholder;
\* opening or reading a resource is caught per resource; failing to return
\* to the list ends the loop with what was collected
ScanCaught ==
    /\ op = "check" /\ variant = "guarded" /\ pc \in ScanPcs
    /\ CASE pc = "s_count" -> pc' = "c_finish" /\ allSlots' = <<>>
         [] pc \in {"s_open", "s_extract"} -> pc' = "s_back" /\ UNCHANGED allSlots
         [] pc = "s_back" -> pc' = "c_finish" /\ UNCHANGED allSlots
    /\ failedAt' = pc
    /\ opened' = IF pc = "s_open" THEN Append(opened, courtIdx) ELSE opened
    /\ labelSeen' = [list |-> "", page |-> ""]
    /\ UNCHANGED <<inVars, browser, thrown, retval, outcome, resp, url,
                   loginVars, acts, bookVars, courtCount, courtIdx>>
    /\ UNCHANGED <<callVars, pureVars, httpVars>>

\* ------------------------------------------------------ checkAvailability
\* localeCompare on the characters of dates and times
CharRank(c) == CASE c = "-" -> 0 [] c = ":" -> 1 [] OTHER -> 2 + DigitVal(c)

RECURSIVE StrCompare(_, _)
StrCompare(a, b) ==
    IF a = <<>> /\ b = <<>> THEN 0
    ELSE IF a = <<>> THEN -1
    ELSE IF b = <<>> THEN 1
    ELSE IF CharRank(a[1]) < CharRank(b[1]) THEN -1
    ELSE IF CharRank(a[1]) > CharRank(b[1]) THEN 1
    ELSE StrCompare(Tail(a), Tail(b))

\* the comparator of slots.sort
SlotCompare(a, b) ==
    IF a.date_iso = b.date_iso THEN StrCompare(a.time_24h, b.time_24h)
    ELSE StrCompare(a.date_iso, b.date_iso)

\* x put after the elements of sorted list s that do not compare above it
RECURSIVE InsertSlot(_, _)
InsertSlot(s, x) ==
    IF s = <<>> THEN <<x>>
    ELSE IF SlotCompare(x, s[1]) < 0 THEN <<x>> \o s
    ELSE <<s[1]>> \o InsertSlot(Tail(s), x)

\* Array.prototype.sort with the comparator: a stable sort
RECURSIVE SortSlots(_)
SortSlots(s) ==
    IF s = <<>> THEN <<>>
    ELSE InsertSlot(SortSlots(SubSeq(s, 1, Len(s) - 1)), s[Len(s)])

\* the stub slot returned when the scan found nothing
Placeholder(p) ==
    Slot(Today, <<"1", "9", ":", "0", "0">>, OrElse(p.min_minutes, 60),
         "UBC Tennis Centre - (stubbed)", "list")

\* checkAvailability without the fallback to the stub slot
CheckResultNoStub(v, found, p) == IF v = "sorted" THEN SortSlots(found) ELSE found

\* what checkAvailability returns for the slots the scan produced
CheckResult(v, found, p) ==
    IF Len(found) > 0
    THEN (IF v = "sorted" THEN SortSlots(found) ELSE found)
    ELSE <<Placeholder(p)>>

CheckFinish ==
    /\ pc = "c_finish"
    /\ Return(CheckResult(variant, allSlots, prefs))
    /\ UNCHANGED <<inVars, browser, outcome, resp, url, loginVars, acts,
                   bookVars, scanVars>>
    /\ UNCHANGED <<callVars, pureVars, httpVars>>

\* ---------------------------------------------------------- specification
Next ==
    \/ Unauthorized \/ Public \/ CheckNow \/ Book \/ Notify \/ Respond
    \/ Launch \/ NewContext \/ NewPage \/ Finally
    \/ Raise \/ Goto
    \/ LoginCheck \/ LoginClick \/ LoginCwl \/ LoginCreds \/ LoginFields
    \/ LoginFill \/ LoginSettle \/ LoginBack
    \/ BookNavBack \/ BookScan \/ BookSlotClick \/ BookReserveVisible
    \/ BookSetAttendees \/ BookReserveClick \/ BookReauth \/ BookRetry
    \/ BookAttendees \/ BookNext \/ BookNextClick \/ BookNextWait
    \/ BookPayment \/ BookOrderVisible \/ BookOrder \/ BookOrderWait
    \/ BookClassify
    \/ ScanCount \/ ScanOpen \/ ScanExtract \/ ScanBack \/ ScanCaught
    \/ CheckFinish

Spec == Init /\ [][Next]_vars

\* every await settles: a step that can be taken is eventually taken
SpecLive == Init /\ [][Next]_vars /\ WF_vars(Next)

\* --------------------------------------------------- concurrent operations
\* The handlers are async functions: a request may arrive while another
\* call awaits. browser, context and page are locals of each call; the
\* module holds no session state.

\* a handler invokes checkAvailability or bookSlot
CallStart(c) ==
    /\ callPc[c] = "idle"
    /\ \E o \in {"check", "book"} : callOp' = [callOp EXCEPT ![c] = o]
    /\ callPc' = [callPc EXCEPT ![c] = "launch"]
    /\ UNCHANGED <<opVars, pureVars, httpVars, callBrowser, browsers, touched>>

\* const browser = await chromium.launch(): a new browser, or a rejection
CallLaunch(c) ==
    /\ callPc[c] = "launch"
    /\ \/ /\ browsers' = Append(browsers, [by |-> c, state |-> "open"])
          /\ callBrowser' = [callBrowser EXCEPT ![c] = Len(browsers) + 1]
          /\ callPc' = [callPc EXCEPT ![c] = "newContext"]
       \/ /\ callPc' = [callPc EXCEPT ![c] = "done"]
          /\ UNCHANGED <<callBrowser, browsers>>
    /\ UNCHANGED <<opVars, pureVars, httpVars, callOp, touched>>

\* await browser.newContext(), before the try block
CallNewContext(c) ==
    /\ callPc[c] = "newContext"
    /\ touched' = touched \cup {<<c, callBrowser[c]>>}
    /\ \/ callPc' = [callPc EXCEPT ![c] = "newPage"]
       \/ callPc' = [callPc EXCEPT ![c] = "done"]
    /\ UNCHANGED <<opVars, pureVars, httpVars, callOp, callBrowser, browsers>>

\* await context.newPage(), before the try block
CallNewPage(c) ==
    /\ callPc[c] = "newPage"
    /\ touched' = touched \cup {<<c, callBrowser[c]>>}
    /\ \/ callPc' = [callPc EXCEPT ![c] = "try"]
       \/ callPc' = [callPc EXCEPT ![c] = "done"]
    /\ UNCHANGED <<opVars, pureVars, httpVars, callOp, callBrowser, browsers>>

\* the try block: the call drives its page until it returns or throws
CallWork(c) ==
    /\ callPc[c] = "try"
    /\ touched' = touched \cup {<<c, callBrowser[c]>>}
    /\ callPc' = [callPc EXCEPT ![c] = "finally"]
    /\ UNCHANGED <<opVars, pureVars, httpVars, callOp, callBrowser, browsers>>

\* finally { await browser.close() }
CallClose(c) ==
    /\ callPc[c] = "finally"
    /\ browsers' = [browsers EXCEPT ![callBrowser[c]].state = "closed"]
    /\ touched' = touched \cup {<<c, callBrowser[c]>>}
    /\ callPc' = [callPc EXCEPT ![c] = "done"]
    /\ UNCHANGED <<opVars, pureVars, httpVars, callOp, callBrowser>>

NextCalls ==
    \E c \in Calls :
        \/ CallStart(c) \/ CallLaunch(c) \/ CallNewContext(c)
        \/ CallNewPage(c) \/ CallWork(c) \/ CallClose(c)

SpecCalls == Init /\ [][NextCalls]_vars


\* ------------------------------------------------------- extraction alone
\* extractSlotsFromScheduler applied to the markers of one schedule view under
\* two sets of preferences, drawn from the sets below.
ExtractMarkerKinds ==
    { Marker(TitleOf(Label12(3, 0, PM), Label12(4, 0, PM)), TRUE, TRUE, TRUE, <<>>),
      Marker(TitleOf(Label12(7, 0, PM), Label12(8, 0, PM)), TRUE, TRUE, TRUE, <<>>),
      Marker(TitleOf(Label12(7, 0, PM), Label12(9, 0, PM)), TRUE, TRUE, TRUE, Tomorrow),
      Marker(TitleOf(Label12(11, 0, PM), Label12(12, 0, AM)), TRUE, TRUE, TRUE, <<>>),
      Marker(TitleOf(Label12(6, 0, PM), Label12(7, 0, PM)), TRUE, TRUE, FALSE, <<>>) }

ExtractMarkerLists == SeqsUpTo(ExtractMarkerKinds, MaxMarkers)

\* preferences the schema of /check_now accepts
ExtractPrefs ==
    { Prefs(s, e, m) : s \in {{}, {15}, {18}}, e \in {{}, {19}, {22}},
                       m \in {{}, {90}} }

InitExtract ==
    /\ InitOps /\ IdleTime
    /\ xMarkers \in ExtractMarkerLists
    /\ xPrefs \in ExtractPrefs /\ xWide \in ExtractPrefs
    /\ xSlots = <<>> /\ xWideSlots = <<>> /\ xPc = "ready"

Extract ==
    /\ xPc = "ready"
    /\ \E slotsUnder \in { [p \in {xPrefs, xWide} |->
                 extractSlotsFromScheduler(xMarkers, p, "Court 01", "facility")] } :
          xSlots' = slotsUnder[xPrefs] /\ xWideSlots' = slotsUnder[xWide]
    /\ xPc' = "extracted"
    /\ UNCHANGED <<opVars, callVars, httpVars, xMarkers, xPrefs, xWide, timeVars>>

NextExtract == Extract

SpecExtract == InitExtract /\ [][NextExtract]_vars


\* titles a marker can carry: ranges the portal prints, and strings that the
\* time-range pattern accepts or refuses although they are no times of day
TitleKinds ==
    { TitleOf(Label12(3, 0, PM), Label12(4, 0, PM)),
      TitleOf(Label12Padded(3, 0, PM), Label12Padded(4, 0, PM)),
      TitleOf(Label12(12, 0, AM), Label12(1, 0, AM)),
      TitleOf(Label12(12, 30, PM), Label12(1, 30, PM)),
      TitleOf(Label12(13, 0, PM), Label12(2, 0, PM)),
      TitleOf(Label12(9, 75, AM), Label12(10, 0, AM)),
      TitleOf(Label12(3, 0, <<"p", "m">>), Label12(4, 0, <<"p", "m">>)),
      <<>> }

\* one available marker with any of the titles
InitTitles ==
    /\ InitOps /\ IdleTime
    /\ xMarkers \in { <<Marker(t, TRUE, TRUE, TRUE, <<>>)>> : t \in TitleKinds }
    /\ xPrefs \in ExtractPrefs /\ xWide = xPrefs
    /\ xSlots = <<>> /\ xWideSlots = <<>> /\ xPc = "ready"

SpecTitles == InitTitles /\ [][NextExtract]_vars


\* ----------------------------------------------------- marker checks alone
\* /^book\s+now$/i on the trimmed text of the span
IsBookNowText(text) ==
    LET t == ToLower(Trim(text)) IN
      /\ Len(t) >= 8
      /\ SubSeq(t, 1, 4) = <<"b", "o", "o", "k">>
      /\ SubSeq(t, Len(t) - 2, Len(t)) = <<"n", "o", "w">>
      /\ \A i \in 5..(Len(t) - 3) : t[i] = " "

\* an availability verdict that leaves pointer-events out
isAvailableIgnoresPointerEvents(parent) ==
    ~parent.hasUnavailable /\ ~parent.isHidden /\ ~parent.isDisabled

\* the verdict of span.evaluate on the enclosing element: its class names,
\* its computed display, visibility and opacity, its pointer-events, its
\* disabled and aria-disabled attributes
isAvailable(parent) ==
    ~parent.hasUnavailable /\ ~parent.isHidden /\ ~parent.hasNoPointerEvents
       /\ ~parent.isDisabled

\* what the scanner reads of a marker: whether it is visible, its text, the
\* signals of its enclosing element, its title, the data-date of the closest
\* ancestor that has one (<<>> when none has)
ProbedMarkers ==
    { Marker(title, visible, IsBookNowText(text), isAvailable(parent), date)
         @@ [text |-> text, parent |-> parent] :
        date \in { <<>>, Tomorrow,
                   <<"2", "0", "2", "6", "-", "1", "1", "-", "7">>,
                   <<"2", "0", "2", "6", "/", "1", "1", "/", "0", "7">> },
        title \in { TitleOf(Label12(3, 0, PM), Label12(4, 0, PM)),
                    <<"n", "o", "o", "n">> },
        visible \in BOOLEAN,
        text \in { <<"B", "o", "o", "k", " ", "N", "o", "w">>,
                   <<" ", "b", "o", "o", "k", " ", "n", "o", "w">>,
                   <<"B", "o", "o", "k", " ", "N", "o", "w", "!">> },
        parent \in [hasUnavailable : BOOLEAN, isHidden : BOOLEAN,
                    hasNoPointerEvents : BOOLEAN, isDisabled : BOOLEAN] }

\* any probed marker, alone or followed by a bookable one
InitProbes ==
    /\ InitOps /\ IdleTime
    /\ \E m \in ProbedMarkers, rest \in {<<>>,
              << Marker(TitleOf(Label12(7, 0, PM), Label12(8, 0, PM)),
                        TRUE, TRUE, TRUE, <<>>) >>} :
          xMarkers = <<m>> \o rest
    /\ xPrefs = Prefs({}, {}, {}) /\ xWide = xPrefs
    /\ xSlots = <<>> /\ xWideSlots = <<>> /\ xPc = "ready"

SpecProbes == InitProbes /\ [][NextExtract]_vars


\* ------------------------------------------------------- conversion alone
\* to24h applied to a 12-hour label, then the conversion of step 1 of
\* bookSlot applied to the result.
TimeInputs ==
    [h : 1..12, m : 0..59, ap : {AM, PM}, padded : BOOLEAN]

\* the label of an input, "3:05 PM" or "03:05 PM"
LabelOf(in) ==
    IF in.padded THEN Label12Padded(in.h, in.m, in.ap) ELSE Label12(in.h, in.m, in.ap)

InitTime ==
    /\ InitOps /\ IdleExtract
    /\ tIn \in TimeInputs
    /\ t24 = <<>> /\ t12 = <<>> /\ tPc = "ready"

Convert ==
    /\ tPc = "ready"
    /\ \E c \in {to24h(LabelOf(tIn))} :
          /\ t24' = c
          /\ t12' = IF c = NoTime THEN <<>> ELSE time12hOf(c)
    /\ tPc' = "converted"
    /\ UNCHANGED <<opVars, callVars, httpVars, xMarkers, xPrefs, xWide, xSlots, xWideSlots,
                   xPc, tIn>>

NextTime == Convert

SpecTime == InitTime /\ [][NextTime]_vars


\* =============================================================== properties
\* the operation has left its try block: only the finally block, the return
\* to the handler and the handler's answer remain
ExitPcs == {"finally", "settled", "responded"}

\* the call of the operation has returned or rejected
Finished == op # "none" /\ outcome # "none"

\* the elements of a sequence
Range(s) == {s[i] : i \in DOMAIN s}

\* C1: whenever a call of checkAvailability or of bookSlot has finished, by a
\* return or by a rejection, a failure of newContext or newPage included, the
\* browser launched for it is no longer open.
BrowserClosedOnEveryExit == Finished => browser # "open"

\* the pipeline stage an action belongs to, in the order of the pipeline
StageOf(a) ==
    CASE a = "slotClick" -> 1
      [] a \in {"reserveClick", "altClick", "reauth"} -> 2
      [] a = "attendeeClick" -> 3
      [] a = "nextClick" -> 4
      [] a = "paySelect" -> 5
      [] a = "orderSubmit" -> 6

\* C2: the actions of bookSlot are performed in pipeline order; once a result
\* has been produced no step runs any more; and success:true is produced only
\* when the slot click, the Reserve click, the attendee selection, the Next
\* click and the order submit have all been performed.
PipelineStrictlyOrdered ==
    op = "book" =>
      /\ \A i, j \in DOMAIN acts : i < j => StageOf(acts[i]) <= StageOf(acts[j])
      /\ retval # <<>> => pc \in ExitPcs
      /\ (retval # <<>> /\ retval[1].success) =>
            /\ {"slotClick", "reserveClick", "nextClick", "orderSubmit"}
                  \subseteq Range(acts)
            /\ attendeeSelected

\* C3: after the order was submitted and the page classified, success:true is
\* returned only if confirmation language is present, and success:false is
\* returned whenever an error element's text is present.
ClassifiedByConfirmationAndError ==
    (op = "book" /\ retval # <<>> /\ failedAt = ""
       /\ "orderSubmit" \in Range(acts)) =>
      /\ retval[1].success => pageConf
      /\ pageErr # "" => ~retval[1].success

\* a BookingResult whose fields agree with one another for request r
Consistent(res, r) ==
    IF res.success
    THEN /\ Len(res.booked_slot) = 1
         /\ res.booked_slot[1].time = r.time_24h
         /\ res.booked_slot[1].duration = r.duration_hours * 60
    ELSE /\ res.confirmation_number = "absent"
         /\ res.booked_slot = <<>>
         /\ MsgNonEmpty(res.message)

\* C4: every call of bookSlot that has finished has yielded exactly one
\* BookingResult, and that result is not contradictory.
ExactlyOneConsistentResult ==
    (op = "book" /\ Finished) =>
      /\ Len(retval) = 1
      /\ Consistent(retval[1], req)

\* C5: bookSlot never rejects; an error raised anywhere in the attempt,
\* session acquisition included, ends in a returned BookingResult with
\* success:false whose message carries the error's message.
BookSlotNeverRejects ==
    (op = "book" /\ Finished) =>
      /\ outcome = "returned"
      /\ failedAt # "" =>
            /\ Len(retval) = 1 /\ ~retval[1].success
            /\ retval[1].message.prefix = "Booking failed: "
            /\ retval[1].message.detail # ""


\* the row the attendee step is to settle on: the first visible, enabled
\* "(You)" row, else the first enabled, visible row; 0 when there is none
ClaimedAttendee(rs) ==
    LET mine(i) == rs[i].you /\ ~rs[i].hidden /\ ~rs[i].disabled
        free(i) == ~rs[i].hidden /\ ~rs[i].disabled
        first(ok(_)) == IF \E i \in DOMAIN rs : ok(i)
                        THEN CHOOSE i \in DOMAIN rs :
                                 ok(i) /\ \A j \in 1..(i - 1) : ~ok(j)
                        ELSE 0
    IN IF first(mine) # 0 THEN first(mine) ELSE first(free)

\* the attendee step has read the table and decided
AttendeeStepDone ==
    \/ pc = "b_next"
    \/ /\ pc = "finally"
       /\ retval = <<FailureResult(
              Msg("Could not select any attendee - none available or all disabled",
                  "", <<>>))>>

\* C6: the attendee step selects the enabled "(You)" row when there is one
\* and otherwise the first enabled, visible row; when no attendee has been
\* selected the booking returns success:false; the Next click is performed
\* only when some attendee has been selected.
AttendeeSelectedBeforeNext ==
    op = "book" =>
      /\ AttendeeStepDone =>
            /\ selIdx = ClaimedAttendee(rows)
            /\ attendeeSelected = (selIdx # 0)
            /\ ~attendeeSelected => (retval # <<>> /\ ~retval[1].success)
      /\ "nextClick" \in Range(acts) => attendeeSelected

\* no title on the page contains the 12-hour label of the requested time
NoTitleMatches(ms, time_24h) ==
    \A i \in DOMAIN ms :
        ~Includes(ToLower(ms[i].title), ToLower(time12hOf(time_24h)))

ResultNeverEmpty ==
    (op = "check" /\ retval # <<>>) =>
      LET r == retval[1]
          stub == "UBC Tennis Centre - (stubbed)"
      IN /\ Len(r) >= 1
         /\ allSlots = <<>> =>
               r = << [date_iso |-> Today,
                       time_24h |-> <<"1", "9", ":", "0", "0">>,
                       minutes |-> IF prefs.min_minutes = {} THEN 60
                                   ELSE CHOOSE m \in prefs.min_minutes : TRUE,
                       location |-> stub,
                       deep_link |-> "list"] >>
         /\ allSlots # <<>> =>
               /\ Len(r) = Len(allSlots)
               /\ Range(r) = Range(allSlots)
               /\ \A i \in DOMAIN r : r[i].location # stub

\* the list page showed no "Choose" control and the placeholder came back
\* with the requested minimum duration
WitnessPlaceholder ==
    /\ op = "check" /\ outcome = "returned"
    /\ courtCount = 0 /\ allSlots = <<>>
    /\ prefs.min_minutes = {90}
    /\ Len(retval[1]) = 1 /\ retval[1][1].minutes = 90

\* C9: an error raised during the scan, after the login check has passed,
\* does not make checkAvailability reject: the call resolves with a list.
ScanFailureRecovered ==
    (op = "check" /\ failedAt \in ScanPcs) =>
      /\ thrown = <<>>
      /\ Finished => (outcome = "returned" /\ Len(retval[1]) >= 1)

\* positions inside ensureLoggedIn after the Login affordance was seen
AuthPcs == {"li_click", "li_cwl", "li_creds", "li_fields", "li_fill",
            "li_settle", "li_back"}

\* C10: an error raised in the login flow ends the operation and is not
\* retried: checkAvailability rejects, with no list, and /check_now answers
\* with an error status; bookSlot returns success:false; the login flow is
\* entered at most once per operation.
AuthFailureIsFatal ==
    /\ loginCount <= 1
    /\ failedAt \in AuthPcs =>
          /\ pc \in ExitPcs
          /\ loginCount = 1
          /\ acts = <<>>
          /\ op = "check" =>
                /\ retval = <<>> /\ thrown # <<>>
                /\ outcome \in {"none", "rejected"}
                /\ pc = "responded" => resp = 400
          /\ op = "book" =>
                /\ thrown = <<>>
                /\ Len(retval) = 1 /\ ~retval[1].success
                /\ outcome \in {"none", "returned"}

\* /check_now has answered after a wait of the login flow timed out
WitnessAuthFailure ==
    /\ op = "check" /\ failedAt = "li_fields"
    /\ outcome = "rejected" /\ pc = "responded" /\ resp = 400


\* how many times action a occurs in the sequence s
Occurrences(s, a) == Cardinality({i \in DOMAIN s : s[i] = a})

\* C11: within one bookSlot call the slot click, the Reserve click, the
\* attendee click, the Next click and the order submit are each attempted at
\* most once and the credentials are re-entered at most once; within one
\* checkAvailability call no resource is opened a second time.
NoStepRetried ==
    /\ op = "book" =>
          \A a \in {"slotClick", "reserveClick", "attendeeClick", "nextClick",
                    "orderSubmit", "reauth"} : Occurrences(acts, a) <= 1
    /\ op = "check" =>
          \A i, j \in DOMAIN opened : i # j => opened[i] # opened[j]


\* C12: with calls of checkAvailability and bookSlot interleaved in any
\* way, a call acts on and closes only the browser it launched itself, no two
\* calls hold the same browser, and no browser is still open once the call
\* that launched it has finished.
SessionOwnedByOneCall ==
    /\ \A t \in touched : browsers[t[2]].by = t[1]
    /\ \A c, d \in Calls :
          (c # d /\ callBrowser[c] # 0) => callBrowser[c] # callBrowser[d]
    /\ \A b \in DOMAIN browsers :
          callPc[browsers[b].by] = "done" => browsers[b].state = "closed"


\* C13: when ensureLoggedIn finds no visible Login affordance it returns at
\* once: the step from the probe to the caller changes neither the page's URL
\* nor the login counters, enters no credential and performs no click.
LoginCheckIdempotent ==
    [][(pc = "li_check" /\ pc' = AfterLogin) =>
          /\ url' = url
          /\ loginCount' = loginCount
          /\ cwlClicked' = cwlClicked
          /\ credFilled' = credFilled
          /\ acts' = acts]_vars

\* bookSlot went on from the login check without any login, still on the
\* facility page it had opened
WitnessAlreadyLoggedIn ==
    /\ op = "book" /\ pc = "b_navback"
    /\ loginCount = 0 /\ ~credFilled /\ url = "facility"


\* C14: whenever ensureLoggedIn has just returned a page to checkAvailability
\* or to bookSlot, by the already-authenticated shortcut or after a login, the
\* page is on the landing view.
ReturnedPageOnLanding ==
    (pc = AfterLogin /\ op # "none") => OnLanding(url)


\* C15: when the wait for the username or the password field times out, no
\* credential has been typed and the form has not been submitted, and the
\* operation ends as a failure: checkAvailability rejects without a value,
\* bookSlot resolves to a result whose success is false.
CredentialFieldTimeoutFails ==
    failedAt = "li_fields" =>
       /\ ~credFilled
       /\ pc \in ExitPcs
       /\ op = "check" => (retval = <<>> /\ thrown # <<>>)
       /\ op = "book" => (thrown = <<>> /\ Len(retval) = 1 /\ ~retval[1].success)

WitnessCredentialFieldTimeout ==
    /\ op = "book" /\ failedAt = "li_fields" /\ credsOk
    /\ Len(retval) = 1 /\ outcome # "none"


\* C16: the step that looks for the CWL affordance clicks the first candidate
\* of the ordered list that is visible; when no candidate is visible it
\* clicks nothing, raises no error and goes on to the credential form.
CwlFirstVisibleOrContinue ==
    [][(pc = "li_cwl" /\ pc' # "li_cwl") =>
          IF \A i \in DOMAIN cwlVis' : ~cwlVis'[i]
          THEN /\ cwlClicked' = 0
               /\ pc' = "li_creds"
               /\ thrown' = thrown /\ retval' = retval /\ failedAt' = failedAt
          ELSE /\ cwlClicked' \in DOMAIN cwlVis'
               /\ cwlVis'[cwlClicked']
               /\ \A j \in 1..(cwlClicked' - 1) : ~cwlVis'[j]]_vars

WitnessCwlSecondCandidateOfTwo ==
    /\ pc = "li_fields"
    /\ cwlVis = <<FALSE, TRUE, FALSE, TRUE>>
    /\ cwlClicked = 2


\* C17: within one bookSlot call the credentials are re-entered on the login
\* boundary at most once, and the attendee step starts off the login
\* boundary: on the attendee page whenever the credentials were re-entered.
AttendeeStepStartsOnAttendeePage ==
    op = "book" =>
       /\ Occurrences(acts, "reauth") <= 1
       /\ pc = "b_attendees" => ~AtLoginBoundary(url)
       /\ (pc = "b_attendees" /\ Occurrences(acts, "reauth") = 1) => OnAttendeePage(url)


\* the markers that pass the marker checks: visible, labelled "Book Now",
\* available, with a title that carries a time range
Discovered(ms) ==
    SelectSeq(ms, LAMBDA m : m.visible /\ m.textOk /\ m.available
                             /\ TitleMatch(m.title) # <<>>)

\* start time and duration of a discovered marker
IntervalOf(m) ==
    LET match == TitleMatch(m.title)
    IN [time_24h |-> to24h(match[1]),
        minutes |-> durationMinutes(to24h(match[1]), to24h(match[2]))]

\* the condition of the preference filter as the spec words it
Keeps(p, iv) ==
    /\ (p.start_hour = {} \/ \E h \in p.start_hour : HourOf(iv.time_24h) >= h)
    /\ (p.end_hour = {} \/ \E h \in p.end_hour : HourOf(iv.time_24h) < h)
    /\ (p.min_minutes = {} \/ \E m \in p.min_minutes : iv.minutes >= m)

Wider(w, p) ==
    /\ (w.start_hour = {} \/ \E a \in w.start_hour, b \in p.start_hour : a <= b)
    /\ (w.end_hour = {} \/ \E a \in w.end_hour, b \in p.end_hour : a >= b)
    /\ (w.min_minutes = {} \/ \E a \in w.min_minutes, b \in p.min_minutes : a <= b)

\* C19: for the same markers, every slot extracted under some preferences is
\* also extracted under preferences with a lower start_hour, a higher
\* end_hour or a lower min_minutes, and is in the list checkAvailability
\* returns for them.
FilteringMonotonic ==
    (xPc = "extracted" /\ Wider(xWide, xPrefs)) =>
       /\ \A i \in DOMAIN xSlots : \E j \in DOMAIN xWideSlots :
             xWideSlots[j] = xSlots[i]
       /\ \A i \in DOMAIN xSlots :
             xSlots[i] \in Range(CheckResult("sorted", xWideSlots, xWide))

WitnessWiderKeepsAndAdds ==
    /\ xPc = "extracted"
    /\ xPrefs = Prefs({18}, {22}, {90}) /\ xWide = Prefs({15}, {22}, {})
    /\ Len(xSlots) = 1 /\ Len(xWideSlots) = 2


\* C20: the list checkAvailability returns is in ascending order of
\* (date_iso, time_24h) under string comparison.
ReturnedListSorted ==
    (op = "check" /\ retval # <<>>) =>
       \A i \in 1..(Len(retval[1]) - 1) :
          \/ StrCompare(retval[1][i].date_iso, retval[1][i + 1].date_iso) < 0
          \/ /\ retval[1][i].date_iso = retval[1][i + 1].date_iso
             /\ StrCompare(retval[1][i].time_24h, retval[1][i + 1].time_24h) <= 0


\* minutes from a start time to an end time on the clock, the end being on
\* the next day when it is not after the start
ElapsedMinutes(start24, end24) ==
    LET d == (HourOf(end24) * 60 + MinuteOf(end24))
                - (HourOf(start24) * 60 + MinuteOf(start24))
    IN IF d > 0 THEN d ELSE d + 1440

\* C21: every extracted slot has a positive number of minutes, equal to the
\* time from the start to the end of the marker's range, also for a range
\* that ends at midnight.
SlotMinutesPositive ==
    xPc = "extracted" =>
       LET disc == Discovered(xMarkers)
       IN \A i \in DOMAIN xSlots :
             /\ xSlots[i].minutes > 0
             /\ \E k \in DOMAIN disc :
                   LET match == TitleMatch(disc[k].title)
                   IN /\ xSlots[i].time_24h = to24h(match[1])
                      /\ xSlots[i].minutes
                            = ElapsedMinutes(to24h(match[1]), to24h(match[2]))


\* a time of day in zero-padded 24-hour form
IsTimeOfDay(t) ==
    /\ IsHHMM(t)
    /\ ParseNum(SubSeq(t, 1, 2)) <= 23
    /\ ParseNum(SubSeq(t, 4, 5)) <= 59

\* C22: every slot of the list checkAvailability returns for the extracted
\* slots, the placeholder included, has a time_24h of the form HH:MM with
\* HH in 00..23 and MM in 00..59.
ReturnedTimesAreTimesOfDay ==
    xPc = "extracted" =>
       \A sl \in Range(CheckResult("sorted", xSlots, xPrefs)) :
          IsTimeOfDay(sl.time_24h)


\* minutes after midnight of the instant a 12-hour reading denotes
InstantOf(h, m, ap) == (h % 12) * 60 + m + (IF ap = PM THEN 720 ELSE 0)

ReturnFailureEndsScanEarly ==
    (op = "check" /\ failedAt = "s_back") =>
       /\ thrown = <<>>
       /\ pc \notin ScanPcs
       /\ opened # <<>> /\ opened[Len(opened)] = courtIdx
       /\ retval # <<>> => retval[1] = CheckResult(variant, allSlots, prefs)


\* C25: the resources a scan went to open are the first ones of the list, in
\* list order, each once, and at most ten of them.
ScanOpensFirstTenInOrder ==
    op = "check" =>
       /\ Len(opened) <= ScanCap
       /\ Len(opened) <= courtCount
       /\ \A i \in DOMAIN opened : opened[i] = i

WitnessScanCapped ==
    /\ op = "check" /\ pc = "c_finish"
    /\ courtCount = ScanCap + 1
    /\ opened = [i \in 1..ScanCap |-> i]


\* C26: every bookSlot call eventually returns a BookingResult, and every
\* checkAvailability call eventually returns a list of slots or rejects.
EveryCallTerminates ==
    /\ (op = "book") ~> (outcome = "returned" /\ Len(retval) = 1)
    /\ (op = "check") ~> (outcome = "rejected"
                            \/ (outcome = "returned" /\ Len(retval) = 1))


\* C27: bookSlot runs, and a browser is launched for it, only for a request
\* whose facility_url is a URL, whose time_24h is a time of day in HH:MM
\* form, whose duration_hours is 1 or 2 and whose num_people is in 1..4; a
\* request the handler refuses is answered with an error and launches nothing.
BookingValidatedBeforeUse ==
    /\ op = "book" =>
          /\ req.facility_url # "notAUrl"
          /\ IsTimeOfDay(req.time_24h)
          /\ req.duration_hours \in {1, 2}
          /\ req.num_people \in 1..4
    /\ (op = "none" /\ pc = "responded") => (resp >= 400 /\ browser = "none")


\* C28: a request to any route other than /health that does not carry the
\* configured token is answered 401 and starts no scan, no booking, no
\* browser and no notification.
BearerRequiredExceptHealth ==
    (endpoint \notin {"none", "/health"} /\ ~tokenOk) =>
       /\ resp = 401
       /\ op = "none" /\ browser = "none" /\ sends = <<>>

\* a string with a character other than a space
HasText(str) == \E i \in DOMAIN str : str[i] # " "

\* C29: a /notify request that reached notify() attempted at most one
\* delivery: over Telegram, to the request's chat id or else the default one,
\* when Telegram is configured and one of them is there; otherwise by email,
\* to the request's address or else the default one, when SMTP is configured
\* and one of them is there; otherwise none, and the request failed.
NotifyOneChannelInOrder ==
    (endpoint = "/notify" /\ tokenOk /\ pc = "responded") =>
       IF nIn.telegram /\ (HasText(nIn.userChat) \/ HasText(nIn.defaultChat))
       THEN /\ Len(sends) = 1 /\ sends[1].via = "telegram"
            /\ sends[1].to = IF HasText(nIn.userChat) THEN Trim(nIn.userChat)
                             ELSE Trim(nIn.defaultChat)
       ELSE IF nIn.smtp /\ (HasText(nIn.userEmail) \/ HasText(nIn.defaultEmail))
       THEN /\ Len(sends) = 1 /\ sends[1].via = "email"
            /\ sends[1].to = IF HasText(nIn.userEmail) THEN nIn.userEmail
                             ELSE nIn.defaultEmail
       ELSE sends = <<>> /\ resp = 502

WitnessEmailFallback ==
    /\ endpoint = "/notify" /\ pc = "responded" /\ resp = 200
    /\ nIn.telegram /\ nIn.userChat = <<" ">> /\ nIn.defaultChat = <<>>
    /\ nIn.smtp /\ nIn.userEmail = <<>>
    /\ sends = <<[via |-> "email", to |-> <<"d", "@", "x">>]>>


\* C30: the marker step 1 of bookSlot chose carries a range whose start is
\* the requested time_24h; a marker whose title merely contains the 12-hour
\* label elsewhere, in its end time or inside a longer time, is not chosen.
ChosenMarkerStartsAtRequest ==
    (step1 = "found" /\ targetIdx \in DOMAIN markers) =>
       LET range == TitleMatch(markers[targetIdx].title)
       IN /\ range # <<>>
          /\ to24h(range[1]) # NoTime
          /\ HourOf(to24h(range[1])) = HourOf(req.time_24h)
          /\ MinuteOf(to24h(range[1])) = MinuteOf(req.time_24h)


\* C31: a bookSlot call that returns success:false either never performed
\* the order-submit click, or the page the portal answered with showed an
\* error element; a wait that times out after the click does not turn an
\* accepted order into a failure.
FailureMeansNothingCommitted ==
    (op = "book" /\ Finished /\ retval # <<>> /\ ~retval[1].success) =>
       \/ Occurrences(acts, "orderSubmit") = 0
       \/ pageErr # ""


\* C32: within one bookSlot call the order-submit click is performed at most
\* once, whether or not the call re-authenticated and whether or not it
\* repeated the Reserve click.
OrderSubmittedAtMostOnce ==
    op = "book" => Occurrences(acts, "orderSubmit") <= 1

WitnessOrderAfterReauthAndRetry ==
    /\ op = "book" /\ outcome = "returned"
    /\ Occurrences(acts, "reauth") = 1
    /\ Occurrences(acts, "reserveClick") = 2
    /\ Occurrences(acts, "orderSubmit") = 1


\* C33: credentials are typed into the portal's login form, by
\* ensureLoggedIn or by the inline re-authentication of bookSlot, only when
\* the user name and the password read from the environment are non-empty.
EmptyCredentialNeverSubmitted ==
    credFilled => credsOk


\* C34: once Reserve has been clicked, as long as the page is on the facility
\* page the call is not in the attendee step or beyond it and has performed
\* no attendee, Next or order-submit click; and a call that ends there
\* returns success:false, with the portal's error text when one is shown.
AttendeeStepOnlyAfterLeavingFacility ==
    (op = "book" /\ Occurrences(acts, "reserveClick") > 0 /\ OnFacility(url)) =>
       /\ pc \notin {"b_attendees", "b_next", "b_nextClick", "b_nextWait",
                     "b_payment", "b_orderVisible", "b_order", "b_orderWait",
                     "b_classify"}
       /\ \A a \in Range(acts) : a \notin {"attendeeClick", "nextClick", "orderSubmit"}
       /\ outcome = "returned" => ~retval[1].success

WitnessStuckOnFacilityPage ==
    /\ op = "book" /\ outcome = "returned" /\ failedAt = "" /\ OnFacility(url)
    /\ acts = <<"slotClick", "reserveClick", "reserveClick">>
    /\ retval[1].message = Msg("Could not proceed with booking: ",
                               "Court is no longer available", <<>>)


\* C35: every step that performs a Reserve click starts with the
\* attendee-count control set to request.num_people.
ReserveOnlyWithCountSet ==
    [][(op = "book" /\ Occurrences(acts', "reserveClick")
                         > Occurrences(acts, "reserveClick"))
          => attendeeCount = req.num_people]_vars


\* a probed marker that is visible, whose text is the phrase Book Now in any
\* letter case, whose enclosing element carries none of the signals and
\* whose title holds a time range
Bookable(m) ==
    /\ m.visible
    /\ ToLower(Trim(m.text)) = <<"b", "o", "o", "k", " ", "n", "o", "w">>
    /\ ~m.parent.hasUnavailable /\ ~m.parent.isHidden
    /\ ~m.parent.hasNoPointerEvents /\ ~m.parent.isDisabled
    /\ TitleMatch(m.title) # <<>>

\* C36: a probed marker yields a slot only if it passes all four checks, a
\* marker that fails one yields none, and the marker after it is processed
\* all the same.
SlotOnlyForBookableMarker ==
    xPc = "extracted" =>
       /\ Len(xSlots) = (IF Bookable(xMarkers[1]) THEN 1 ELSE 0) + (Len(xMarkers) - 1)
       /\ Len(xMarkers) = 2 =>
             xSlots[Len(xSlots)].time_24h = <<"1", "9", ":", "0", "0">>
       /\ Bookable(xMarkers[1]) =>
             xSlots[1].time_24h = <<"1", "5", ":", "0", "0">>

WitnessPointerEventsNoneSkipped ==
    /\ xPc = "extracted" /\ Len(xMarkers) = 2
    /\ xMarkers[1].visible /\ xMarkers[1].textOk
    /\ TitleMatch(xMarkers[1].title) # <<>>
    /\ xMarkers[1].parent = [hasUnavailable |-> FALSE, isHidden |-> FALSE,
                             hasNoPointerEvents |-> TRUE, isDisabled |-> FALSE]
    /\ Len(xSlots) = 1 /\ xSlots[1].time_24h = <<"1", "9", ":", "0", "0">>


\* C37: every step of a scan that goes to open a resource other than the
\* first starts on the resource-list page, so the scanner went back to the
\* list in between; and the schedule view being read is that of the one
\* resource opened last.
ScanReturnsToListBetweenResources ==
    [][/\ (op = "check" /\ Len(opened') > Len(opened) /\ opened # <<>>)
             => url = "list"
       /\ (op = "check" /\ pc' = "s_extract")
             => opened' # <<>> /\ opened'[Len(opened')] = courtIdx'
                   /\ url' = "facility"]_vars

WitnessSecondResourceOpened ==
    /\ op = "check" /\ pc = "s_extract" /\ url = "facility"
    /\ opened = <<1, 2>> /\ courtIdx = 2


\* the synthetic label of the N-th resource
ResourceLabels ==
    <<"Resource 1", "Resource 2", "Resource 3", "Resource 4", "Resource 5",
      "Resource 6", "Resource 7", "Resource 8", "Resource 9", "Resource 10",
      "Resource 11">>

\* C38: every collected slot has a non-empty location, and the slots of the
\* first resource carry the heading of its own page when there is one, else
\* the heading near its Choose control, else the label Resource 1.
LocationByPreferenceOrder ==
    /\ \A i \in DOMAIN allSlots : allSlots[i].location # ""
    /\ (op = "check" /\ pc = "s_back" /\ courtIdx = 1) =>
          \A i \in DOMAIN allSlots :
             allSlots[i].location =
                IF labelSeen.page # "" THEN labelSeen.page
                ELSE IF labelSeen.list # "" THEN labelSeen.list
                ELSE ResourceLabels[courtIdx]


\* a string of the shape dddd-dd-dd, d a digit
DateShaped(d) ==
    [i \in DOMAIN d |-> IF IsDigit(d[i]) THEN "d" ELSE d[i]]
       = <<"d", "d", "d", "d", "-", "d", "d", "-", "d", "d">>

\* C39: the date_iso of the slot of a marker is the date annotation near the
\* marker when that has the shape YYYY-MM-DD and the current date when it is
\* absent or malformed; every date_iso has the shape YYYY-MM-DD.
DateFromAnnotationOrToday ==
    xPc = "extracted" =>
       /\ \A i \in DOMAIN xSlots : DateShaped(xSlots[i].date_iso)
       /\ Bookable(xMarkers[1]) =>
             xSlots[1].date_iso = IF DateShaped(xMarkers[1].date)
                                  THEN xMarkers[1].date ELSE Today

WitnessMalformedDateGivesToday ==
    /\ xPc = "extracted" /\ Bookable(xMarkers[1])
    /\ xMarkers[1].date = <<"2", "0", "2", "6", "/", "1", "1", "/", "0", "7">>
    /\ Len(xSlots) = 1 /\ xSlots[1].date_iso = Today

====
